---- MODULE Spec2Model ----
(***************************************************************************)
(* Model of the browser-automation orchestrator:                           *)
(*   - McpClient            (src/server/mcp-client.ts)                     *)
(*   - Orchestrator.execute (src/server/orchestrator.ts, lines 18-403)     *)
(*   - the task routes      (src/unnamed/part_007: execute, cancel, replay)*)
(*   - MemStorage           (src/unnamed/part_006)                         *)
(*                                                                         *)
(* A run is a chain of awaits.  Only the awaits on real I/O (the provider  *)
(* transport and the oracle) let another request handler run; storage and  *)
(* logging awaits resolve in microtasks.  Every action below is therefore  *)
(* "the awaited call returns, and the code runs on to its next real await".*)
(* The locations "loop" and "turn" are internal (no await): no request     *)
(* handler is enabled there.                                               *)
(***************************************************************************)
EXTENDS Integers, Sequences, FiniteSets, TLC

\* ------------------------------------------------------------------ bounds
\* Tool calls of a run for which the oracle may name any tool (later calls
\* are calls of observe).
MaxToolCalls == 2
\* Tool calls in one oracle reply.
MaxTurn == MaxToolCalls
\* Recorded actions in a stored trace handed to the replay executor.
MaxTrace == 2

\* ------------------------------------------------------- program constants
maxIterations == 20

Navigate == "browserbase_stagehand_navigate"
Act == "browserbase_stagehand_act"
Extract == "browserbase_stagehand_extract"
Observe == "browserbase_stagehand_observe"
Screenshot == "browserbase_screenshot"
SessionCreate == "browserbase_session_create"
SessionClose == "browserbase_session_close"

\* Tools the provider enumerates; all of them are offered to the oracle.
ToolNames == {Navigate, Act, Extract, Observe, Screenshot, SessionCreate, SessionClose}

CancelError == "Task cancelled by user"
MaxIterError == "Max iterations reached"
NoToolsError == "No MCP tools available. Cannot proceed with automation."
NoSessionIdError == "Failed to extract sessionId from response"
HandlerCancelError == "Cancelled by user"
NavigationFailed == "Navigation failed: provider error"
\* Messages that come from outside the repository (transport, SDK, oracle API,
\* JSON.parse); only their being some error text matters.
ProviderError == "provider error"
OracleError == "oracle error"
ParseError == "Unexpected token in JSON"

None == "none"
SessionIds == {"s1", "s2"}
\* A session id the oracle may write into a call's arguments by itself.
OracleSid == "sX"
\* Identities are opaque: the first one the provider mints is called s1.
FirstSession == "s1"
URLs == {"u1", "u2"}

Args == [url : URLs \cup {None}, sessionId : SessionIds \cup {OracleSid, None}]
NoArgs == [url |-> None, sessionId |-> None]
NoCall == [function |-> None, arguments |-> NoArgs]

\* A task that an earlier execute request left behind.
PriorTask == "t0"
ExecTask == "t1"
ReplayTask == "t2"
\* The task a further replay request creates.
SecondTask == "t3"
TaskIds == {PriorTask, ExecTask, ReplayTask, SecondTask}
Runs == {"exec", "replay"}

NoTrace == [sessionId |-> None, url |-> None, pages |-> <<>>, actions |-> <<>>]
NoResult == [success |-> FALSE, result |-> None, error |-> None]
NoTask == [status |-> None, result |-> None, error |-> None, replayState |-> NoTrace]

\* Number of method calls made on the McpClient that is driven by itself.
MaxApiCalls == 3
UnknownError == "Unknown error"

\* A McpClient just constructed (client = null, sessionId = null), no method
\* called yet.  `transports` counts the transports it has created, `wire` holds
\* the tool calls the latest method call put on the wire.
\* `was` and `held` are its client and identity when that call began, `io` what the call met
\* at the provider, `threw`, `value` and `error` how the call ended.
NoClient ==
  [client |-> "null", sessionId |-> None, transports |-> 0, calls |-> 0,
   op |-> None, was |-> "null", held |-> None, call |-> NoCall, replaySessionId |-> None,
   io |-> None, threw |-> FALSE, value |-> None, error |-> None, wire |-> <<>>]

\* No request handled yet.  `key` is whether OPENAI_API_KEY is set, `prompt`
\* the prompt of the body, `id` the :id of the path, `task` the id of the task
\* record in the response.
NoRequest ==
  [route |-> None, key |-> FALSE, prompt |-> None, id |-> None,
   status |-> 0, message |-> None, task |-> None]

\* No further replay request yet: `m` is its McpClient, `trace` the trace it
\* took from the task `task`.
NoSecond ==
  [pc |-> "idle", m |-> [client |-> "null", sessionId |-> None], trace |-> NoTrace,
   task |-> None]

\* null where a screenshot string is expected.
NoStr == [scheme |-> "null", b64 |-> FALSE, size |-> "null", ext |-> "null"]

\* No response content looked at yet.
NoSnapshot == [content |-> <<>>, screenshot |-> NoStr]

VARIABLES
  pc,                 \* where the execute callback is suspended
  iterationCount,     \* execute: let iterationCount
  sessionId,          \* execute: let sessionId
  pending,            \* tool calls of the current oracle reply not yet handled
  callId,             \* position of the current tool call in the reply
  cur,                \* the tool call in flight (function, arguments)
  messages,           \* conversation entries pushed by the current step of the loop
  cancelled,          \* Orchestrator.cancelled
  replayState,        \* Orchestrator.replayState
  mcp,                \* per run: McpClient.client and McpClient.sessionId
  currentOrchestrator,\* routes: let currentOrchestrator
  currentTaskId,      \* MemStorage.currentTaskId
  tasks,              \* MemStorage.tasks
  execResult,         \* what execute returned
  rpc,                \* where the replay callback is suspended
  rTrace,             \* replay: { sessionId, url, actions } read at request time
  rTaskId,            \* replay: req.params.id, the task whose trace is replayed
  rIdx,               \* replay: index of the recorded action being reissued
  rError,             \* replay: the error caught by the callback, if any
  \* history variables (not program state)
  requested,          \* tool calls of the run counted against MaxToolCalls
  oracleCalls,        \* oracle calls issued by the run
  capReplyTools,      \* the reply to oracle call number maxIterations requested tool calls
  lastOutcome,        \* how the latest oracle-requested call returned
  issued,             \* oracle-requested calls that returned without error
  closeSent,          \* per identity: close-session calls sent to the provider
  minted,             \* the identity createSession returned to execute
  cancelAccepted,     \* a cancel request marked the execute task
  lateCalls,          \* requested tool calls that returned after cancel() was called
  adopted,            \* the identity the replay's client adopted
  sent,               \* calls the replay sent to the provider, in order
  mcpClient,          \* a McpClient driven through its methods, with the latest call
  http,               \* the latest request to the routes and the response to it
  second,             \* a further replay request: its position, client and trace
  rejected,           \* history: the promise of execute() was rejected
  snapshot            \* a response content and the screenshot extracted from it

vars == <<pc, iterationCount, sessionId, pending, callId, cur, messages,
          cancelled, replayState, mcp, currentOrchestrator, currentTaskId, tasks,
          execResult, rpc, rTrace, rTaskId, rIdx, rError, requested, oracleCalls,
          capReplyTools, lastOutcome, issued, closeSent, minted, cancelAccepted, lateCalls,
          adopted, sent, mcpClient, http, second, rejected, snapshot>>

\* What the actions of the execute run and of the replay never touch.
apart == <<mcpClient, http, second, rejected, snapshot>>

execLocals == <<iterationCount, sessionId, pending, callId, cur, messages>>
histExec == <<requested, oracleCalls, capReplyTools, lastOutcome, issued, minted>>
replayVars == <<rpc, rTrace, rTaskId, rIdx, rError, adopted, sent>>

\* ------------------------------------------------------------ pure helpers
Success(r) == [success |-> TRUE, result |-> r, error |-> None]
\* A caught error returned as a success.
FailureAsSuccess(e) == [success |-> TRUE, result |-> e, error |-> None]

\* catch (error): return { success: false, error: errorMessage }
Failure(e) == [success |-> FALSE, result |-> None, error |-> e]

\* const actionArgs = { ...functionArgs }; delete actionArgs.sessionId;
StripSessionId(arguments) == [arguments EXCEPT !.sessionId = None]

RecordedAction(functionName, functionArgs) ==
  [function |-> functionName, arguments |-> StripSessionId(functionArgs)]

\* The capture with extract left out of the recorded tools.
RecordActionNoExtract(rs, functionName, functionArgs) ==
  IF rs.sessionId = None THEN rs
  ELSE IF functionName = Navigate /\ functionArgs.url # None THEN
    [rs EXCEPT
       !.url = IF @ = None THEN functionArgs.url ELSE @,
       !.pages = IF Len(@) = 0 \/ @[Len(@)] # functionArgs.url
                 THEN Append(@, functionArgs.url) ELSE @,
       !.actions = Append(@, RecordedAction(functionName, functionArgs))]
  ELSE IF functionName \in {Act, Screenshot} THEN
    [rs EXCEPT !.actions = Append(@, RecordedAction(functionName, functionArgs))]
  ELSE rs

\* Orchestrator.execute, "Capture replay state" (run on a successful call).
RecordAction(rs, functionName, functionArgs) ==
  IF rs.sessionId = None THEN rs
  ELSE IF functionName = Navigate /\ functionArgs.url # None THEN
    [rs EXCEPT
       !.url = IF @ = None THEN functionArgs.url ELSE @,
       !.pages = IF Len(@) = 0 \/ @[Len(@)] # functionArgs.url
                 THEN Append(@, functionArgs.url) ELSE @,
       !.actions = Append(@, RecordedAction(functionName, functionArgs))]
  ELSE IF functionName \in {Act, Extract, Screenshot} THEN
    [rs EXCEPT !.actions = Append(@, RecordedAction(functionName, functionArgs))]
  ELSE rs

\* Orchestrator.getReplayState: null unless the trace has a session identity.
getReplayState(rs) == IF rs.sessionId # None THEN rs ELSE NoTrace

\* A screenshot taken after every successful call.
shouldTakeScreenshotAlways(functionName) == TRUE

\* const shouldTakeScreenshot = [act, navigate, observe].includes(functionName)
shouldTakeScreenshot(functionName) == functionName \in {Act, Navigate, Observe}

\* Injection that leaves a sessionId supplied by the caller in place.
InjectSessionKeepsCaller(m, functionName, arguments) ==
  IF m.sessionId # None /\ functionName # SessionCreate /\ arguments.sessionId = None
  THEN [arguments EXCEPT !.sessionId = m.sessionId]
  ELSE arguments

\* McpClient.callFunction: the arguments that go on the wire.
InjectSession(m, functionName, arguments) ==
  IF m.sessionId # None /\ functionName # SessionCreate
  THEN [arguments EXCEPT !.sessionId = m.sessionId]
  ELSE arguments

\* A call made through a client reaches the provider only over a live transport.
Reaches(m) == m.client = "connected"

\* History: one more close-session call sent for the identity in `arguments`.
CountClose(cs, m, functionName, arguments) ==
  IF functionName = SessionClose /\ Reaches(m) /\ arguments.sessionId \in DOMAIN cs
  THEN [cs EXCEPT ![arguments.sessionId] = @ + 1]
  ELSE cs

\* MemStorage.updateTask: { ...task, ...updates }
MergeTask(task, updates) ==
  [f \in DOMAIN task |-> IF f \in DOMAIN updates THEN updates[f] ELSE task[f]]

updateTask(ts, id, updates) ==
  IF ts[id].status = None THEN ts
  ELSE [ts EXCEPT ![id] = MergeTask(@, updates)]

\* MemStorage.updateTask: currentTaskId is reset when the updated task is terminal.
updateCurrent(ts, cid, id, updates) ==
  IF ts[id].status = None THEN cid
  ELSE IF MergeTask(ts[id], updates).status \in {"completed", "failed"} THEN None
  ELSE cid

\* MemStorage.createTask
createTask(ts, id) == [ts EXCEPT ![id] = [NoTask EXCEPT !.status = "running"]]

\* MemStorage.getCurrentTask
getCurrentTask(ts, cid) == IF cid = None THEN None ELSE cid

\* ------------------------------------------------------------------- Init
Init ==
  /\ pc = "idle"
  /\ iterationCount = 0
  /\ sessionId = None
  /\ pending = 0
  /\ callId = 0
  /\ cur = NoCall
  /\ messages = <<>>
  /\ cancelled = FALSE
  /\ replayState = NoTrace
  /\ mcp = [r \in Runs |-> [client |-> "null", sessionId |-> None]]
  /\ currentOrchestrator = None
  /\ currentTaskId = None
  /\ tasks = [t \in TaskIds |-> NoTask]
  /\ execResult = NoResult
  /\ rpc = "idle"
  /\ rTrace = NoTrace
  /\ rTaskId = None
  /\ rIdx = 0
  /\ rError = None
  /\ requested = 0
  /\ oracleCalls = 0
  /\ capReplyTools = FALSE
  /\ lastOutcome = None
  /\ issued = <<>>
  /\ closeSent = [s \in SessionIds |-> 0]
  /\ minted = None
  /\ cancelAccepted = FALSE
  /\ lateCalls = 0
  /\ adopted = None
  /\ sent = <<>>
  /\ mcpClient = NoClient
  /\ http = NoRequest
  /\ second = NoSecond
  /\ rejected = FALSE
  /\ snapshot = NoSnapshot

\* ------------------------------------------- POST /api/tasks/execute callback
\* A task update that leaves the status of the task as it is.
CallbackUpdatesKeepsStatus(res) ==
  [result |-> res.result, replayState |-> getReplayState(replayState)]

\* A task update that stores the trace of a successful run only.
CallbackUpdatesDropsTrace(res) ==
  IF res.success
  THEN [status |-> "completed", result |-> res.result,
        replayState |-> getReplayState(replayState)]
  ELSE [status |-> "failed",
        error |-> IF res.error = None THEN "Task execution failed" ELSE res.error]

\* The task update that follows `result = await orchestrator.execute(prompt)`.
CallbackUpdates(res) ==
  IF res.success
  THEN [status |-> "completed", result |-> res.result,
        replayState |-> getReplayState(replayState)]
  ELSE [status |-> "failed",
        error |-> IF res.error = None THEN "Task execution failed" ELSE res.error,
        replayState |-> getReplayState(replayState)]

\* execute returned `res` (its locals, and the history counters of the run,
\* end with it); the callback stores the outcome and resets currentOrchestrator.
Callback(res) ==
  /\ execResult' = res
  /\ tasks' = updateTask(tasks, ExecTask, CallbackUpdates(res))
  /\ currentTaskId' = updateCurrent(tasks, currentTaskId, ExecTask, CallbackUpdates(res))
  /\ currentOrchestrator' = None
  /\ iterationCount' = 0
  /\ sessionId' = None
  /\ requested' = 0
  /\ oracleCalls' = 0
  /\ pc' = "done"

\* execute's catch/return followed by its finally block: with a session id in
\* hand, mcpClient.close() is awaited before execute returns `res`.
Finally(res, sid, m) ==
  /\ mcp' = m
  /\ IF sid # None
     THEN /\ execResult' = res
          /\ UNCHANGED <<tasks, currentTaskId, currentOrchestrator, iterationCount,
                         sessionId, requested, oracleCalls>>
          /\ IF m["exec"].sessionId # None
             THEN /\ pc' = "closeSession"
                  /\ closeSent' = CountClose(closeSent, m["exec"], SessionClose,
                                             [NoArgs EXCEPT !.sessionId = m["exec"].sessionId])
             ELSE /\ pc' = "closeClient"
                  /\ UNCHANGED closeSent
     ELSE /\ Callback(res)
          /\ UNCHANGED closeSent

\* What an action that stays inside the run leaves alone of what Finally sets.
stay == <<mcp, execResult, tasks, currentTaskId, currentOrchestrator, closeSent,
          iterationCount, sessionId, requested, oracleCalls>>
turnLocals == <<pending, callId, cur, messages>>
histRun == <<capReplyTools, lastOutcome, issued, minted, cancelAccepted, lateCalls>>

\* --------------------------------------------------- POST /api/tasks/execute
\* The request handler: createTask, new McpClient, new Orchestrator,
\* currentOrchestrator = orchestrator, setImmediate(...).
AcceptExecute ==
  /\ pc = "idle"
  /\ tasks[ExecTask].status = None
  /\ tasks' = createTask(tasks, ExecTask)
  /\ currentTaskId' = ExecTask
  /\ currentOrchestrator' = "exec"
  /\ pc' = "queued"
  /\ UNCHANGED <<iterationCount, sessionId, requested, oracleCalls, turnLocals, cancelled,
                 replayState, mcp, execResult, replayVars, mcpClient, second, rejected,
                 snapshot, histRun, closeSent>>

\* POST /api/tasks/execute with the oracle credentials configured and a prompt
\* in the body.
ExecuteRequest == AcceptExecute /\ UNCHANGED http

\* setImmediate fires: execute() -> initialize() -> mcpClient.connect().
\* connect() assigns this.client before awaiting the transport.
StartExecute ==
  /\ pc = "queued"
  /\ mcp' = [mcp EXCEPT !["exec"].client = "unconnected"]
  /\ pc' = "connect"
  /\ UNCHANGED <<iterationCount, sessionId, requested, oracleCalls, turnLocals, cancelled,
                 replayState, currentOrchestrator, currentTaskId, tasks, execResult,
                 replayVars, apart, histRun, closeSent>>

\* initialize(): connect() returned or threw; on success listTools() is awaited.
ConnectReturns ==
  /\ pc = "connect"
  /\ \E ok \in BOOLEAN :
       IF ok
       THEN /\ mcp' = [mcp EXCEPT !["exec"].client = "connected"]
            /\ pc' = "listTools"
            /\ UNCHANGED <<execResult, tasks, currentTaskId, currentOrchestrator, closeSent,
                           iterationCount, sessionId, requested, oracleCalls>>
       ELSE Finally(Failure(ProviderError), sessionId, mcp)
  /\ UNCHANGED <<turnLocals, cancelled, replayState, replayVars, apart, histRun>>

\* initialize(): listTools() returned (an empty list also when the request
\* threw); with tools, createSession() sends the session-creation call.
ListToolsReturns ==
  /\ pc = "listTools"
  /\ \E tools \in {"some", "empty", "threw"} :
       IF tools = "some"
       THEN /\ pc' = "createSession"
            /\ UNCHANGED stay
       ELSE Finally(Failure(NoToolsError), sessionId, mcp)
  /\ UNCHANGED <<turnLocals, cancelled, replayState, replayVars, apart, histRun>>

\* createSession(): the session-creation call returned; the identity is parsed
\* out of the response text.  On success the trace is initialised.
CreateSessionReturns ==
  /\ pc = "createSession"
  /\ \E out \in {"threw", None, FirstSession} :
       IF out \in SessionIds
       THEN /\ mcp' = [mcp EXCEPT !["exec"].sessionId = out]
            /\ sessionId' = out
            /\ minted' = out
            /\ replayState' = [sessionId |-> out, url |-> None, pages |-> <<>>,
                               actions |-> <<>>]
            /\ pc' = "loop"
            /\ UNCHANGED <<execResult, tasks, currentTaskId, currentOrchestrator, closeSent,
                           iterationCount, requested, oracleCalls>>
       ELSE /\ Finally(Failure(IF out = None THEN NoSessionIdError ELSE ProviderError),
                       sessionId, mcp)
            /\ UNCHANGED <<minted, replayState>>
  /\ UNCHANGED <<turnLocals, cancelled, replayVars, apart, capReplyTools, lastOutcome, issued,
                 cancelAccepted, lateCalls>>

\* The loop condition with the cap compared by <= instead of <.
LoopContinuesOffByOne(n, c) == n <= maxIterations /\ ~c

\* The loop condition.
LoopContinues(n, c) == n < maxIterations /\ ~c

\* while (iterationCount < maxIterations && !this.cancelled) { iterationCount++;
\* ... await openai.chat.completions.create(...) }, and the code after the loop.
LoopTop ==
  /\ pc = "loop"
  /\ IF LoopContinues(iterationCount, cancelled)
     THEN /\ iterationCount' = iterationCount + 1
          /\ oracleCalls' = oracleCalls + 1
          /\ pc' = "oracle"
          /\ UNCHANGED <<mcp, execResult, tasks, currentTaskId, currentOrchestrator,
                         closeSent, sessionId, requested>>
     ELSE IF iterationCount >= maxIterations
          THEN Finally(Failure(MaxIterError), sessionId, mcp)
          ELSE Finally(Success("Task completed"), sessionId, mcp)
  /\ UNCHANGED <<turnLocals, cancelled, replayState, replayVars, apart, histRun>>

\* The oracle reply handled without the cancellation check.
OracleReturnsNoCheck ==
  /\ pc = "oracle"
  /\ \E n \in (0 .. MaxTurn) \cup {-1} :
       IF n = -1
       THEN /\ Finally(Failure(OracleError), sessionId, mcp)
            /\ UNCHANGED <<messages, pending, callId, capReplyTools>>
       ELSE /\ messages' = <<[role |-> "assistant", id |-> n, error |-> FALSE]>>
            /\ capReplyTools' = (iterationCount = maxIterations /\ n > 0)
            /\ IF n > 0
               THEN /\ pending' = n
                    /\ callId' = 0
                    /\ pc' = "turn"
                    /\ UNCHANGED stay
               ELSE /\ Finally(Success("answer"), sessionId, mcp)
                    /\ UNCHANGED <<pending, callId>>
  /\ UNCHANGED <<cur, cancelled, replayState, replayVars, apart, lastOutcome, issued, minted,
                 cancelAccepted, lateCalls>>

\* The oracle call returned (or threw).  messages.push(message); the
\* cancellation check; then either the tool calls or the final answer.
OracleReturns ==
  /\ pc = "oracle"
  /\ \E n \in (0 .. MaxTurn) \cup {-1} :   \* -1: the call threw
       IF n = -1
       THEN /\ Finally(Failure(OracleError), sessionId, mcp)
            /\ UNCHANGED <<messages, pending, callId, capReplyTools>>
       ELSE /\ messages' = <<[role |-> "assistant", id |-> n, error |-> FALSE]>>
            /\ capReplyTools' = (iterationCount = maxIterations /\ n > 0)
            /\ IF cancelled
               THEN /\ Finally(Failure(CancelError), sessionId, mcp)
                    /\ UNCHANGED <<pending, callId>>
               ELSE IF n > 0
               THEN /\ pending' = n
                    /\ callId' = 0
                    /\ pc' = "turn"
                    /\ UNCHANGED stay
               ELSE /\ Finally(Success("answer"), sessionId, mcp)
                    /\ UNCHANGED <<pending, callId>>
  /\ UNCHANGED <<cur, cancelled, replayState, replayVars, apart, lastOutcome, issued, minted,
                 cancelAccepted, lateCalls>>

\* The arguments the oracle may give a call of `functionName`.
OracleArgs(functionName) ==
  { a \in Args : /\ a.sessionId \in {None, OracleSid}
                 /\ (functionName # Navigate => a.url = None) }

\* The tools the oracle asks for: any tool for the first MaxToolCalls calls
\* of a run, observe afterwards.
OracleTools(n) == IF n < MaxToolCalls THEN ToolNames ELSE {Observe}

Spend(n) == IF n < MaxToolCalls THEN n + 1 ELSE n

\* for (const toolCall of message.tool_calls): the next call of the reply.
\* A call that is not a function call is skipped; JSON.parse of the arguments
\* may throw; otherwise mcpClient.callFunction sends the call.
NextToolCall ==
  /\ pc = "turn"
  /\ messages' = <<>>
  /\ lastOutcome' = None
  /\ IF pending = 0
     THEN /\ pc' = "loop"
          /\ callId' = 0
          /\ UNCHANGED <<stay, pending, cur>>
     ELSE /\ callId' = callId + 1
          /\ \/ /\ pending' = pending - 1           \* if (!("function" in toolCall)) continue
                /\ requested' = Spend(requested)
                /\ pc' = "turn"
                /\ UNCHANGED <<mcp, execResult, tasks, currentTaskId, currentOrchestrator,
                               closeSent, iterationCount, sessionId, oracleCalls, cur>>
             \/ /\ Finally(Failure(ParseError), sessionId, mcp)   \* JSON.parse throws
                /\ UNCHANGED <<pending, cur>>
             \/ \E fn \in OracleTools(requested) : \E a \in OracleArgs(fn) :
                  /\ requested' = Spend(requested)
                  /\ cur' = [function |-> fn, arguments |-> a]
                  /\ closeSent' = CountClose(closeSent, mcp["exec"], fn,
                                             InjectSession(mcp["exec"], fn, a))
                  /\ pc' = "tool"
                  /\ UNCHANGED <<mcp, execResult, tasks, currentTaskId,
                                 currentOrchestrator, iterationCount, sessionId,
                                 oracleCalls, pending>>
  /\ UNCHANGED <<cancelled, replayState, replayVars, apart, capReplyTools, issued, minted,
                 cancelAccepted, lateCalls>>

ToolMessage(id, err) == [role |-> "tool", id |-> id, error |-> err]
ImageMessage == [role |-> "user", id |-> 0, error |-> FALSE]

\* The messages pushed once a successful call is fully handled.
ResultMessages(id, shot) ==
  IF shot THEN <<ToolMessage(id, FALSE), ImageMessage>> ELSE <<ToolMessage(id, FALSE)>>

\* McpClient.callFunction on a session_create response: the held identity is
\* replaced by the one found in the text.
LearnSession(m, functionName, found) ==
  IF functionName = SessionCreate /\ found # None
  THEN [m EXCEPT !.sessionId = found] ELSE m

\* History: an oracle-requested call of a page tool that returned without
\* error, by tool name and arguments less the session identity.  Calls of
\* observe (which the oracle may repeat without bound) and of the session
\* tools are not logged.
Logged(log, functionName, arguments) ==
  IF functionName \in {Observe, SessionCreate, SessionClose} THEN log
  ELSE Append(log, [function |-> functionName, arguments |-> StripSessionId(arguments)])

\* The error branch also capturing the failed call in the trace.
ErrorBranchRecords ==
  /\ messages' = Append(messages, ToolMessage(callId, TRUE))
  /\ pending' = pending - 1
  /\ cur' = NoCall
  /\ pc' = "turn"
  /\ replayState' = RecordAction(replayState, cur.function, cur.arguments)
  /\ UNCHANGED <<mcp, issued>>

\* if (result.error): the error text becomes the call's tool result and the
\* for loop moves on to the next call of the reply.
ErrorBranch ==
  /\ messages' = Append(messages, ToolMessage(callId, TRUE))
  /\ pending' = pending - 1
  /\ cur' = NoCall
  /\ pc' = "turn"
  /\ UNCHANGED <<mcp, replayState, issued>>

\* callFunction returned for the call in flight: the error branch, or the
\* success branch (trace capture, then a screenshot of its own if the result
\* carried none and the tool changes the page).
ToolReturns ==
  /\ pc = "tool"
  /\ \E out \in {"error", "ok", "okShot"} : \E found \in SessionIds \cup {None} :
       /\ ~Reaches(mcp["exec"]) => out = "error"
       /\ (found # None) => (cur.function = SessionCreate /\ out # "error")
       /\ lastOutcome' = IF out = "error" THEN "error" ELSE "ok"
       /\ lateCalls' = IF cancelled THEN lateCalls + 1 ELSE lateCalls
       /\ IF out = "error"
          THEN ErrorBranch
          ELSE /\ mcp' = [mcp EXCEPT !["exec"] = LearnSession(@, cur.function, found)]
               /\ replayState' = RecordAction(replayState, cur.function, cur.arguments)
               /\ issued' = Logged(issued, cur.function, cur.arguments)
               /\ IF out # "okShot" /\ shouldTakeScreenshot(cur.function)
                  THEN /\ pc' = "shot"
                       /\ UNCHANGED <<messages, pending, cur>>
                  ELSE /\ messages' = messages \o ResultMessages(callId, out = "okShot")
                       /\ pending' = pending - 1
                       /\ cur' = NoCall
                       /\ pc' = "turn"
  /\ UNCHANGED <<iterationCount, sessionId, requested, oracleCalls, callId, cancelled,
                 currentOrchestrator, currentTaskId, tasks, execResult, replayVars, apart,
                 capReplyTools, closeSent, minted, cancelAccepted>>

\* The screenshot returned and the loop goes back to the oracle at once,
\* whatever calls of the reply are left.
ShotReturnsEndsTurn ==
  /\ pc = "shot"
  /\ \E out \in {"error", "ok", "okShot"} :
       /\ ~Reaches(mcp["exec"]) => out = "error"
       /\ messages' = messages \o ResultMessages(callId, out = "okShot")
       /\ pending' = pending - 1
       /\ cur' = NoCall
       /\ pc' = "loop"
  /\ UNCHANGED <<stay, callId, cancelled, replayState, replayVars, apart, histRun>>

\* The screenshot call made by the loop itself returned.
ShotReturns ==
  /\ pc = "shot"
  /\ \E out \in {"error", "ok", "okShot"} :
       /\ ~Reaches(mcp["exec"]) => out = "error"
       /\ messages' = messages \o ResultMessages(callId, out = "okShot")
       /\ pending' = pending - 1
       /\ cur' = NoCall
       /\ pc' = "turn"
  /\ UNCHANGED <<stay, callId, cancelled, replayState, replayVars, apart, histRun>>

\* closeSession that keeps the identity after the call has returned.
closeSessionDoneKeeps(m, ok) == m

\* McpClient.closeSession: the close-session call returned (sessionId = null)
\* or threw (swallowed).
closeSessionDone(m, ok) == IF ok THEN [m EXCEPT !.sessionId = None] ELSE m

\* McpClient.close: the transport teardown returned or threw (swallowed).
closeClientDone(m, ok) == IF ok THEN [m EXCEPT !.client = "closed"] ELSE m

\* finally { await this.mcpClient.close() }: closeSession() finished, then
\* this.client.close() is awaited.
CloseSessionReturns ==
  /\ pc = "closeSession"
  /\ \E ok \in BOOLEAN :
       /\ ~Reaches(mcp["exec"]) => ~ok
       /\ mcp' = [mcp EXCEPT !["exec"] = closeSessionDone(@, ok)]
  /\ pc' = "closeClient"
  /\ UNCHANGED <<iterationCount, sessionId, requested, oracleCalls, turnLocals, cancelled,
                 replayState, currentOrchestrator, currentTaskId, tasks, execResult,
                 replayVars, apart, histRun, closeSent>>

\* this.client.close() finished: execute returns and the route's callback
\* stores the outcome.
CloseClientReturns ==
  /\ pc = "closeClient"
  /\ \E ok \in BOOLEAN :
       mcp' = [mcp EXCEPT !["exec"] = closeClientDone(@, ok)]
  /\ Callback(execResult)
  /\ UNCHANGED <<turnLocals, cancelled, replayState, replayVars, apart, histRun, closeSent>>

\* ---------------------------------------------------- POST /api/tasks/cancel
\* Locations at which the run is suspended on real I/O (or not yet started).
AwaitPcs == {"queued", "connect", "listTools", "createSession", "oracle", "tool",
             "shot", "closeSession", "closeClient"}

Cancel ==
  /\ pc \in AwaitPcs
  /\ currentOrchestrator # None
  /\ cancelled' = TRUE
  /\ IF getCurrentTask(tasks, currentTaskId) # None
     THEN /\ tasks' = updateTask(tasks, currentTaskId,
                                 [status |-> "failed", error |-> HandlerCancelError])
          /\ currentTaskId' = updateCurrent(tasks, currentTaskId, currentTaskId,
                                 [status |-> "failed", error |-> HandlerCancelError])
          /\ cancelAccepted' = TRUE
     ELSE UNCHANGED <<tasks, currentTaskId, cancelAccepted>>
  /\ UNCHANGED <<pc, iterationCount, sessionId, requested, oracleCalls, turnLocals,
                 replayState, mcp, currentOrchestrator, execResult, replayVars, apart,
                 capReplyTools, lastOutcome, issued, minted, closeSent, lateCalls>>

\* ------------------------------------------------ POST /api/tasks/:id/replay
\* History: a call goes on the wire with the identity injected; `step` names
\* the statement of the replay callback that made the call.
Send(snt, m, step, functionName, arguments) ==
  IF Reaches(m)
  THEN Append(snt, [step |-> step, function |-> functionName,
                    arguments |-> InjectSession(m, functionName, arguments)])
  ELSE snt

\* The primary navigation called with the session identity alone.
PrimaryNavigateNoUrl(tr) == [url |-> None, sessionId |-> tr.sessionId]

\* The arguments of the primary navigation: { url, sessionId }.
PrimaryNavigateArgs(tr) == [url |-> tr.url, sessionId |-> tr.sessionId]

\* The request handler: the stored trace is read, a task is created for the
\* replay and marked running, and the walk is scheduled.
AcceptReplay(id) ==
  /\ rpc = "idle"
  /\ tasks[ReplayTask].status = None
  /\ tasks[id].status # None
  /\ tasks[id].replayState # NoTrace
  /\ rTaskId' = id
  /\ rTrace' = tasks[id].replayState
  /\ tasks' = updateTask(createTask(tasks, ReplayTask), ReplayTask, [status |-> "running"])
  /\ currentTaskId' = ReplayTask
  /\ rpc' = "queued"
  /\ UNCHANGED <<pc, mcpClient, second, rejected, snapshot, execLocals, cancelled, replayState, mcp,
                 currentOrchestrator,
                 execResult, rIdx, rError, adopted, sent, histExec, closeSent,
                 cancelAccepted, lateCalls>>

\* POST /api/tasks/:id/replay for a task that holds a trace.
ReplayRequest == \E id \in TaskIds \ {ReplayTask} : AcceptReplay(id) /\ UNCHANGED http

\* setImmediate fires: await mcpClient.connect().
StartReplay ==
  /\ rpc = "queued"
  /\ mcp' = [mcp EXCEPT !["replay"].client = "unconnected"]
  /\ rpc' = "connect"
  /\ UNCHANGED <<pc, apart, execLocals, cancelled, replayState, currentOrchestrator,
                 currentTaskId, tasks, execResult, rTrace, rTaskId, rIdx, rError, adopted, sent,
                 histExec, closeSent, cancelAccepted, lateCalls>>

\* The finally block tearing the transport down without closing the session.
ReplayFinallyNoClose(m, snt) ==
  /\ mcp' = m
  /\ rpc' = "finalCloseClient"
  /\ sent' = snt
  /\ UNCHANGED closeSent

\* finally { await mcpClient.close() }: closeSession() sends the close call
\* while an identity is held, else the transport teardown follows at once.
ReplayFinally(m, snt) ==
  /\ mcp' = m
  /\ IF m["replay"].sessionId # None
     THEN /\ rpc' = "finalCloseSession"
          /\ sent' = Send(snt, m["replay"], "close", SessionClose, NoArgs)
          /\ closeSent' = CountClose(closeSent, m["replay"], SessionClose,
                                     InjectSession(m["replay"], SessionClose, NoArgs))
     ELSE /\ rpc' = "finalCloseClient"
          /\ sent' = snt
          /\ UNCHANGED closeSent

\* catch (error): the replay task is marked failed, then the finally block.
ReplayCatch(err, m, snt) ==
  /\ rError' = err
  /\ tasks' = updateTask(tasks, ReplayTask, [status |-> "failed", error |-> err])
  /\ currentTaskId' = updateCurrent(tasks, currentTaskId, ReplayTask,
                                    [status |-> "failed", error |-> err])
  /\ ReplayFinally(m, snt)

\* for (const action of actions): the next recorded action is reissued with
\* the identity substituted; after the last one mcpClient.close() is awaited.
ReplayNext(i, m, snt) ==
  /\ mcp' = m
  /\ rIdx' = i
  /\ IF i <= Len(rTrace.actions)
     THEN /\ rpc' = "action"
          /\ sent' = Send(snt, m["replay"], "action", rTrace.actions[i].function,
                          [rTrace.actions[i].arguments EXCEPT !.sessionId = rTrace.sessionId])
          /\ UNCHANGED closeSent
     ELSE /\ rpc' = "closeSession"
          /\ sent' = Send(snt, m["replay"], "close", SessionClose, NoArgs)
          /\ closeSent' = CountClose(closeSent, m["replay"], SessionClose,
                                     InjectSession(m["replay"], SessionClose, NoArgs))

\* createSession that returns the supplied identity without holding it.
adoptSessionNotHeld(m, replaySessionId) == m

\* McpClient.createSession(replaySessionId): the identity is adopted as is.
adoptSession(m, replaySessionId) == [m EXCEPT !.sessionId = replaySessionId]

\* connect() returned: the session is adopted and the primary navigation is
\* sent when the trace has a URL.  connect() threw: the replay fails.
ReplayConnectReturns ==
  /\ rpc = "connect"
  /\ \E ok \in BOOLEAN :
       IF ok
       THEN LET m == [mcp EXCEPT !["replay"] =
                        adoptSession([@ EXCEPT !.client = "connected"], rTrace.sessionId)]
            IN /\ adopted' = rTrace.sessionId
               /\ IF rTrace.url # None
                  THEN /\ mcp' = m
                       /\ rpc' = "nav"
                       /\ sent' = Send(sent, m["replay"], "primary", Navigate,
                                       PrimaryNavigateArgs(rTrace))
                       /\ UNCHANGED <<rIdx, closeSent>>
                  ELSE ReplayNext(1, m, sent)
               /\ UNCHANGED <<rError, tasks, currentTaskId>>
       ELSE /\ ReplayCatch(ProviderError, mcp, sent)
            /\ UNCHANGED <<rIdx, adopted>>
  /\ UNCHANGED <<pc, apart, execLocals, cancelled, replayState, currentOrchestrator, execResult,
                 rTrace, rTaskId, histExec, cancelAccepted, lateCalls>>

\* The primary navigation returned: an error fails the replay, otherwise a
\* screenshot is requested.
ReplayNavReturns ==
  /\ rpc = "nav"
  /\ \E ok \in BOOLEAN :
       IF ok
       THEN /\ rpc' = "navShot"
            /\ sent' = Send(sent, mcp["replay"], "primaryShot", Screenshot,
                            [NoArgs EXCEPT !.sessionId = rTrace.sessionId])
            /\ UNCHANGED <<mcp, rError, tasks, currentTaskId, closeSent>>
       ELSE ReplayCatch(NavigationFailed, mcp, sent)
  /\ UNCHANGED <<pc, apart, execLocals, cancelled, replayState, currentOrchestrator, execResult,
                 rTrace, rTaskId, rIdx, adopted, histExec, cancelAccepted, lateCalls>>

\* The screenshot after the primary navigation returned (its outcome is only
\* logged): the walk over the recorded actions starts.
ReplayNavShotReturns ==
  /\ rpc = "navShot"
  /\ ReplayNext(1, mcp, sent)
  /\ UNCHANGED <<pc, apart, execLocals, cancelled, replayState, currentOrchestrator,
                 currentTaskId, tasks, execResult, rTrace, rTaskId, rError, adopted, histExec,
                 cancelAccepted, lateCalls>>

\* The walk with a `break` in the error branch.
ReplayActionReturnsBreaks ==
  /\ rpc = "action"
  /\ \E ok \in BOOLEAN :
       IF ok /\ rTrace.actions[rIdx].function = Act
       THEN /\ rpc' = "actShot"
            /\ sent' = Send(sent, mcp["replay"], "actionShot", Screenshot,
                            [NoArgs EXCEPT !.sessionId = rTrace.sessionId])
            /\ UNCHANGED <<mcp, rIdx, closeSent>>
       ELSE IF ok THEN ReplayNext(rIdx + 1, mcp, sent)
       ELSE ReplayNext(Len(rTrace.actions) + 1, mcp, sent)
  /\ UNCHANGED <<pc, apart, execLocals, cancelled, replayState, currentOrchestrator,
                 currentTaskId, tasks, execResult, rTrace, rTaskId, rError, adopted, histExec,
                 cancelAccepted, lateCalls>>

\* The walk with a `throw` in the error branch.
ReplayActionReturnsThrows ==
  /\ rpc = "action"
  /\ \E ok \in BOOLEAN :
       IF ok /\ rTrace.actions[rIdx].function = Act
       THEN /\ rpc' = "actShot"
            /\ sent' = Send(sent, mcp["replay"], "actionShot", Screenshot,
                            [NoArgs EXCEPT !.sessionId = rTrace.sessionId])
            /\ UNCHANGED <<mcp, rIdx, closeSent, rError, tasks, currentTaskId>>
       ELSE IF ok
       THEN /\ ReplayNext(rIdx + 1, mcp, sent)
            /\ UNCHANGED <<rError, tasks, currentTaskId>>
       ELSE /\ ReplayCatch(ProviderError, mcp, sent)
            /\ UNCHANGED rIdx
  /\ UNCHANGED <<pc, apart, execLocals, cancelled, replayState, currentOrchestrator,
                 execResult, rTrace, rTaskId, adopted, histExec, cancelAccepted, lateCalls>>

\* A reissued action returned: an error is logged; a successful act is
\* followed by a screenshot; then the next action.
ReplayActionReturns ==
  /\ rpc = "action"
  /\ \E ok \in BOOLEAN :
       IF ok /\ rTrace.actions[rIdx].function = Act
       THEN /\ rpc' = "actShot"
            /\ sent' = Send(sent, mcp["replay"], "actionShot", Screenshot,
                            [NoArgs EXCEPT !.sessionId = rTrace.sessionId])
            /\ UNCHANGED <<mcp, rIdx, closeSent>>
       ELSE ReplayNext(rIdx + 1, mcp, sent)
  /\ UNCHANGED <<pc, apart, execLocals, cancelled, replayState, currentOrchestrator,
                 currentTaskId, tasks, execResult, rTrace, rTaskId, rError, adopted, histExec,
                 cancelAccepted, lateCalls>>

\* The screenshot after an act returned.
ReplayActShotReturns ==
  /\ rpc = "actShot"
  /\ ReplayNext(rIdx + 1, mcp, sent)
  /\ UNCHANGED <<pc, apart, execLocals, cancelled, replayState, currentOrchestrator,
                 currentTaskId, tasks, execResult, rTrace, rTaskId, rError, adopted, histExec,
                 cancelAccepted, lateCalls>>

\* await mcpClient.close() after the walk: closeSession() finished, the
\* transport teardown is awaited.
ReplayCloseSessionReturns ==
  /\ rpc = "closeSession"
  /\ \E ok \in BOOLEAN :
       /\ ~Reaches(mcp["replay"]) => ~ok
       /\ mcp' = [mcp EXCEPT !["replay"] = closeSessionDone(@, ok)]
  /\ rpc' = "closeClient"
  /\ UNCHANGED <<pc, apart, execLocals, cancelled, replayState, currentOrchestrator,
                 currentTaskId, tasks, execResult, rTrace, rTaskId, rIdx, rError, adopted, sent,
                 histExec, closeSent, cancelAccepted, lateCalls>>

\* The two task updates after a replay that did not throw.
ReplayCompleted(ts) ==
  updateTask(updateTask(ts, ReplayTask,
                        [status |-> "completed", result |-> "Replay completed successfully"]),
             rTaskId, [replayState |-> NoTrace])

ReplayCompletedCurrent(ts, cid) ==
  updateCurrent(updateTask(ts, ReplayTask, [status |-> "completed"]),
                updateCurrent(ts, cid, ReplayTask, [status |-> "completed"]),
                rTaskId, [replayState |-> NoTrace])

\* mcpClient.close() finished: the replay task is marked completed, the
\* original task's trace is cleared, and the finally block closes again.
ReplayCloseClientReturns ==
  /\ rpc = "closeClient"
  /\ tasks' = ReplayCompleted(tasks)
  /\ currentTaskId' = ReplayCompletedCurrent(tasks, currentTaskId)
  /\ \E ok \in BOOLEAN :
       ReplayFinally([mcp EXCEPT !["replay"] = closeClientDone(@, ok)], sent)
  /\ UNCHANGED <<pc, apart, execLocals, cancelled, replayState, currentOrchestrator, execResult,
                 rTrace, rTaskId, rIdx, rError, adopted, histExec, cancelAccepted, lateCalls>>

\* finally: closeSession() finished, the transport teardown is awaited.
ReplayFinalCloseSessionReturns ==
  /\ rpc = "finalCloseSession"
  /\ \E ok \in BOOLEAN :
       /\ ~Reaches(mcp["replay"]) => ~ok
       /\ mcp' = [mcp EXCEPT !["replay"] = closeSessionDone(@, ok)]
  /\ rpc' = "finalCloseClient"
  /\ UNCHANGED <<pc, apart, execLocals, cancelled, replayState, currentOrchestrator,
                 currentTaskId, tasks, execResult, rTrace, rTaskId, rIdx, rError, adopted, sent,
                 histExec, closeSent, cancelAccepted, lateCalls>>

\* finally: the teardown finished; currentOrchestrator = null.
ReplayFinalCloseClientReturns ==
  /\ rpc = "finalCloseClient"
  /\ \E ok \in BOOLEAN :
       mcp' = [mcp EXCEPT !["replay"] = closeClientDone(@, ok)]
  /\ currentOrchestrator' = None
  /\ rpc' = "done"
  /\ UNCHANGED <<pc, apart, execLocals, cancelled, replayState, currentTaskId, tasks,
                 execResult, rTrace, rTaskId, rIdx, rError, adopted, sent, histExec, closeSent,
                 cancelAccepted, lateCalls>>

\* ---------------------------------------------------------- specifications
NextReplay ==
  \/ ReplayRequest
  \/ StartReplay
  \/ ReplayConnectReturns
  \/ ReplayNavReturns
  \/ ReplayNavShotReturns
  \/ ReplayActionReturns
  \/ ReplayActShotReturns
  \/ ReplayCloseSessionReturns
  \/ ReplayCloseClientReturns
  \/ ReplayFinalCloseSessionReturns
  \/ ReplayFinalCloseClientReturns

Next ==
  \/ ExecuteRequest
  \/ StartExecute
  \/ ConnectReturns
  \/ ListToolsReturns
  \/ CreateSessionReturns
  \/ LoopTop
  \/ OracleReturns
  \/ NextToolCall
  \/ ToolReturns
  \/ ShotReturns
  \/ CloseSessionReturns
  \/ CloseClientReturns
  \/ Cancel
  \/ NextReplay

\* The server from start: one execute request, cancel requests at any await,
\* then a replay of the trace the run left on its task.
Spec == Init /\ [][Next]_vars

\* Recorded actions the trace recorder can produce.
Recordable ==
  {RecordedAction(Navigate, [url |-> u, sessionId |-> None]) : u \in URLs}
    \cup {RecordedAction(f, NoArgs) : f \in {Act, Extract, Screenshot}}

SeqUpTo(S, n) == UNION {[1 .. k -> S] : k \in 0 .. n}

\* Traces a task record may hold: a session identity, an optional primary
\* URL and up to MaxTrace recorded actions.
StoredTraces ==
  {[sessionId |-> "s1", url |-> u, pages |-> <<>>, actions |-> a] :
     u \in URLs \cup {None}, a \in SeqUpTo(Recordable, MaxTrace)}

\* The replay executor alone, on a finished task that holds a stored trace.
InitReplay ==
  /\ pc = "done"
  /\ iterationCount = 0
  /\ sessionId = None
  /\ pending = 0
  /\ callId = 0
  /\ cur = NoCall
  /\ messages = <<>>
  /\ cancelled = FALSE
  /\ replayState = NoTrace
  /\ mcp = [r \in Runs |-> [client |-> "null", sessionId |-> None]]
  /\ currentOrchestrator = None
  /\ currentTaskId = None
  /\ \E tr \in StoredTraces : \E st \in {"completed", "failed"} :
       tasks = [t \in TaskIds |->
                  IF t = ExecTask THEN [NoTask EXCEPT !.status = st, !.replayState = tr]
                  ELSE NoTask]
  /\ execResult = NoResult
  /\ rpc = "idle"
  /\ rTrace = NoTrace
  /\ rTaskId = None
  /\ rIdx = 0
  /\ rError = None
  /\ requested = 0
  /\ oracleCalls = 0
  /\ capReplyTools = FALSE
  /\ lastOutcome = None
  /\ issued = <<>>
  /\ closeSent = [s \in SessionIds |-> 0]
  /\ minted = None
  /\ cancelAccepted = FALSE
  /\ lateCalls = 0
  /\ adopted = None
  /\ sent = <<>>
  /\ mcpClient = NoClient
  /\ http = NoRequest
  /\ second = NoSecond
  /\ rejected = FALSE
  /\ snapshot = NoSnapshot

SpecReplay == InitReplay /\ [][NextReplay]_vars

\* The steps of the execute callback: each is an awaited call returning (or
\* the event loop running the scheduled callback).
RunStep ==
  \/ StartExecute
  \/ ConnectReturns
  \/ ListToolsReturns
  \/ CreateSessionReturns
  \/ LoopTop
  \/ OracleReturns
  \/ NextToolCall
  \/ ToolReturns
  \/ ShotReturns
  \/ CloseSessionReturns
  \/ CloseClientReturns

NextExecute == ExecuteRequest \/ RunStep \/ Cancel

\* One execute request with cancel requests at any await, every awaited call
\* of the run eventually returning.
SpecExecute == Init /\ [][NextExecute]_vars /\ WF_vars(RunStep)

\* The steps of the replay callback: each is an awaited call returning (or
\* the event loop running the scheduled callback).
ReplayStep ==
  \/ StartReplay
  \/ ReplayConnectReturns
  \/ ReplayNavReturns
  \/ ReplayNavShotReturns
  \/ ReplayActionReturns
  \/ ReplayActShotReturns
  \/ ReplayCloseSessionReturns
  \/ ReplayCloseClientReturns
  \/ ReplayFinalCloseSessionReturns
  \/ ReplayFinalCloseClientReturns

\* The server from start, every awaited call of the execute run and of the
\* replay eventually returning.
SpecLive == Init /\ [][Next]_vars /\ WF_vars(RunStep) /\ WF_vars(ReplayStep)

\* The trace the earlier task holds.
PriorTrace ==
  [sessionId |-> "s2", url |-> "u1", pages |-> <<"u1">>,
   actions |-> <<RecordedAction(Navigate, [url |-> "u1", sessionId |-> None]),
                 RecordedAction(Act, NoArgs)>>]

\* The server with a finished task that holds a trace.
InitServer ==
  /\ pc = "idle"
  /\ iterationCount = 0
  /\ sessionId = None
  /\ pending = 0
  /\ callId = 0
  /\ cur = NoCall
  /\ messages = <<>>
  /\ cancelled = FALSE
  /\ replayState = NoTrace
  /\ mcp = [r \in Runs |-> [client |-> "null", sessionId |-> None]]
  /\ currentOrchestrator = None
  /\ currentTaskId = None
  /\ tasks = [t \in TaskIds |->
                IF t = PriorTask
                THEN [NoTask EXCEPT !.status = "completed", !.replayState = PriorTrace]
                ELSE NoTask]
  /\ execResult = NoResult
  /\ rpc = "idle"
  /\ rTrace = NoTrace
  /\ rTaskId = None
  /\ rIdx = 0
  /\ rError = None
  /\ requested = 0
  /\ oracleCalls = 0
  /\ capReplyTools = FALSE
  /\ lastOutcome = None
  /\ issued = <<>>
  /\ closeSent = [s \in SessionIds |-> 0]
  /\ minted = None
  /\ cancelAccepted = FALSE
  /\ lateCalls = 0
  /\ adopted = None
  /\ sent = <<>>
  /\ mcpClient = NoClient
  /\ http = NoRequest
  /\ second = NoSecond
  /\ rejected = FALSE
  /\ snapshot = NoSnapshot

\* The start of an execute run: initialize() and createSession().
StartupStep ==
  \/ StartExecute
  \/ ConnectReturns
  \/ ListToolsReturns
  \/ CreateSessionReturns

NextServer == ExecuteRequest \/ StartupStep \/ Cancel \/ NextReplay

\* Execute, cancel and replay requests in any order on that server, the
\* execute run followed as far as its createSession(): the replay of the
\* earlier task can run while the execute run does.
SpecServer == InitServer /\ [][NextServer]_vars

\* ============================================================ McpClient
\* The methods of McpClient, each as the record after the call.  A caller
\* awaits each method before calling the next.  What comes from outside is drawn
\* by the caller: `ok` is whether a transport can be established, `out` what
\* client.callTool / client.listTools did, `found` the identity a
\* session-creation response names.  Errors raised outside the repository have
\* a message (ProviderError) or are not Error objects at all.

\* The fields describing the latest call, as a call starts.
begin(c, op) ==
  [c EXCEPT !.calls = @ + 1, !.op = op, !.was = c.client, !.held = c.sessionId,
            !.call = NoCall,
            !.replaySessionId = None, !.io = None, !.threw = FALSE, !.value = None,
            !.error = None, !.wire = <<>>]

\* McpClient.connect: a new transport and a new Client, whatever the state.
connect(c, ok) ==
  [c EXCEPT !.transports = @ + 1,
            !.client = IF ok THEN "connected" ELSE "unconnected",
            !.io = IF ok THEN "connected" ELSE "connectFailed",
            !.threw = ~ok,
            !.error = IF ok THEN None ELSE ProviderError]

\* if (!this.client) { await this.connect(); }
ensureClient(c, ok) == IF c.client = "null" THEN connect(c, ok) ELSE c

\* McpClient.listTools: every failure is caught and becomes the empty list.
listTools(c, ok, out) ==
  LET e == ensureClient(c, ok) IN
  IF e.threw THEN [e EXCEPT !.threw = FALSE, !.error = None, !.value = "empty"]
  ELSE IF ~Reaches(e) THEN [e EXCEPT !.io = "notConnected", !.value = "empty"]
  ELSE IF out = "threw" THEN [e EXCEPT !.io = "callFailed", !.value = "empty"]
  ELSE [e EXCEPT !.io = "answered", !.value = out, !.error = None]

\* McpClient.createSession(replaySessionId?).
createSession(c, replaySessionId, ok, out, found) ==
  LET e == [ensureClient(c, ok) EXCEPT !.replaySessionId = replaySessionId] IN
  IF e.threw THEN e
  ELSE IF replaySessionId # None
  THEN [adoptSession(e, replaySessionId) EXCEPT !.value = replaySessionId, !.error = None]
  ELSE IF ~Reaches(e)
  THEN [e EXCEPT !.io = "notConnected", !.threw = TRUE, !.error = ProviderError]
  ELSE LET w == [e EXCEPT !.wire = Append(@, [function |-> SessionCreate,
                                               arguments |-> NoArgs])] IN
       IF out = "threw"
       THEN [w EXCEPT !.io = "callFailed", !.threw = TRUE, !.error = ProviderError]
       ELSE IF found = None
       THEN [w EXCEPT !.io = "answered", !.threw = TRUE, !.error = NoSessionIdError]
       ELSE [w EXCEPT !.io = "answered", !.sessionId = found, !.value = found,
                      !.error = None]

\* catch (error) of callFunction: error instanceof Error ? error.message : "Unknown error"
caught(out) == IF out = "threwNonError" THEN UnknownError ELSE ProviderError

\* callFunction whose catch block rethrows.
callFunctionRethrows(c, functionName, arguments, ok, out, found) ==
  LET e == [ensureClient(c, ok) EXCEPT
              !.call = [function |-> functionName, arguments |-> arguments]] IN
  IF e.threw THEN e
  ELSE IF ~Reaches(e)
  THEN [e EXCEPT !.io = "notConnected", !.threw = TRUE, !.error = ProviderError]
  ELSE LET w == [e EXCEPT !.wire = Append(@,
                   [function |-> functionName,
                    arguments |-> InjectSession(e, functionName, arguments)])] IN
       IF out \in {"threw", "threwNonError"}
       THEN [w EXCEPT !.io = "callFailed", !.threw = TRUE, !.error = caught(out)]
       ELSE [LearnSession(w, functionName, found) EXCEPT
               !.io = "answered", !.error = None,
               !.value = LearnSession(w, functionName, found).sessionId]

\* McpClient.callFunction({ function, arguments }): the whole body is in a try
\* whose catch returns { ...functionCall, error }.  `value` is the sessionId
\* of the response.
callFunction(c, functionName, arguments, ok, out, found) ==
  LET e == [ensureClient(c, ok) EXCEPT
              !.call = [function |-> functionName, arguments |-> arguments]] IN
  IF e.threw THEN [e EXCEPT !.threw = FALSE]
  ELSE IF ~Reaches(e)
  THEN [e EXCEPT !.io = "notConnected", !.error = ProviderError]
  ELSE LET w == [e EXCEPT !.wire = Append(@,
                   [function |-> functionName,
                    arguments |-> InjectSession(e, functionName, arguments)])] IN
       IF out \in {"threw", "threwNonError"}
       THEN [w EXCEPT !.io = "callFailed", !.error = caught(out)]
       ELSE [LearnSession(w, functionName, found) EXCEPT
               !.io = "answered", !.error = None,
               !.value = LearnSession(w, functionName, found).sessionId]

\* McpClient.closeSession: nothing without an identity; every failure is
\* caught and logged; the identity is dropped once the call has returned.
closeSession(c, ok, out) ==
  IF c.sessionId = None THEN c
  ELSE LET e == ensureClient(c, ok) IN
       IF e.threw THEN [e EXCEPT !.threw = FALSE, !.error = None]
       ELSE IF ~Reaches(e) THEN [e EXCEPT !.io = "notConnected"]
       ELSE LET w == [e EXCEPT !.wire = Append(@,
                        [function |-> SessionClose,
                         arguments |-> [url |-> None, sessionId |-> e.sessionId]])] IN
            [closeSessionDone(w, out = "ok") EXCEPT
               !.io = IF out = "ok" THEN "answered" ELSE "callFailed"]

\* McpClient.close: closeSession, then client.close() in a try/catch.
close(c, ok, out, closed) ==
  LET e == closeSession(c, ok, out) IN
  IF e.client = "null" THEN e ELSE closeClientDone(e, closed)

\* The draws that the call can tell apart: a transport is only established
\* for a client that has none, an identity is only read out of an answer.
attempts(c, ok) == c.client # "null" => ok
names(out, found) == found # None => out = "ok"

\* What callTool and listTools can do once the request is sent.
CallOutcomes == {"ok", "threw", "threwNonError"}
ListOutcomes == {"some", "empty", "threw"}

\* A caller calls connect().
ClientConnect ==
  /\ mcpClient.calls < MaxApiCalls
  /\ \E ok \in BOOLEAN : mcpClient' = connect(begin(mcpClient, "connect"), ok)

\* A caller calls listTools().
ClientListTools ==
  /\ mcpClient.calls < MaxApiCalls
  /\ \E ok \in BOOLEAN : \E out \in ListOutcomes :
       /\ attempts(mcpClient, ok)
       /\ mcpClient' = listTools(begin(mcpClient, "listTools"), ok, out)

\* A caller calls createSession() or createSession(replaySessionId).
ClientCreateSession ==
  /\ mcpClient.calls < MaxApiCalls
  /\ \E replaySessionId \in SessionIds \cup {None} : \E ok \in BOOLEAN :
     \E out \in {"ok", "threw"} : \E found \in SessionIds \cup {None} :
       /\ attempts(mcpClient, ok)
       /\ names(out, found)
       /\ mcpClient' = createSession(begin(mcpClient, "createSession"),
                                     replaySessionId, ok, out, found)

\* A caller calls callFunction with any tool and any arguments.
ClientCallFunction ==
  /\ mcpClient.calls < MaxApiCalls
  /\ \E functionName \in ToolNames : \E arguments \in Args : \E ok \in BOOLEAN :
     \E out \in CallOutcomes : \E found \in SessionIds \cup {None} :
       /\ attempts(mcpClient, ok)
       /\ names(out, found)
       /\ found # None => functionName = SessionCreate
       /\ mcpClient' = callFunction(begin(mcpClient, "callFunction"),
                                    functionName, arguments, ok, out, found)

\* A caller calls closeSession().
ClientCloseSession ==
  /\ mcpClient.calls < MaxApiCalls
  /\ \E ok \in BOOLEAN : \E out \in {"ok", "threw"} :
       /\ attempts(mcpClient, ok)
       /\ mcpClient' = closeSession(begin(mcpClient, "closeSession"), ok, out)

\* A caller calls close().
ClientClose ==
  /\ mcpClient.calls < MaxApiCalls
  /\ \E ok \in BOOLEAN : \E out \in {"ok", "threw"} : \E closed \in BOOLEAN :
       /\ attempts(mcpClient, ok)
       /\ mcpClient' = close(begin(mcpClient, "close"), ok, out, closed)

serverVars ==
  <<pc, execLocals, cancelled, replayState, mcp, currentOrchestrator, currentTaskId,
    tasks, execResult, histExec, closeSent, cancelAccepted, lateCalls, replayVars,
    http, second, rejected>>

NextClient ==
  /\ \/ ClientConnect
     \/ ClientListTools
     \/ ClientCreateSession
     \/ ClientCallFunction
     \/ ClientCloseSession
     \/ ClientClose
  /\ UNCHANGED <<serverVars, snapshot>>

\* One McpClient and a caller that makes up to MaxApiCalls method calls on it,
\* in any order, awaiting each.
SpecClient == Init /\ [][NextClient]_vars

\* ==================================================================== claims
\* Calls of the log that the trace is to hold: navigate with a url, act,
\* extract, screenshot.
IsTraced(c) ==
  \/ c.function \in {Act, Extract, Screenshot}
  \/ c.function = Navigate /\ c.arguments.url # None

\* C1: when execute has returned, the trace's actions are exactly, in order,
\* the oracle-requested calls that returned without error and whose tool is
\* navigate (with a url), act, extract or screenshot, each as tool name plus
\* arguments without sessionId.
C1_TraceIsSuccessfulCalls ==
  (pc = "done" /\ minted # None) => replayState.actions = SelectSeq(issued, IsTraced)

\* C1 witness: a finished run in which one successful call was recorded and
\* another (a navigate without url) was not.
C1_Witness ==
  /\ pc = "done"
  /\ Len(replayState.actions) = 1
  /\ Len(issued) = 2
  /\ \E i \in 1 .. 2 : issued[i].function = Navigate /\ issued[i].arguments.url = None

\* C2: when a run of execute that acquired a session identity has returned,
\* the close-session tool has been invoked for that identity exactly once,
\* whatever tools the oracle requested.
C2_ClosedExactlyOnce ==
  (pc = "done" /\ minted # None) => closeSent[minted] = 1

\* C2 scenario: the run has returned and the provider was sent two
\* close-session calls for the acquired identity.
C2_ClosedTwice ==
  pc = "done" /\ minted # None /\ closeSent[minted] = 2

\* C3: once a cancel request has marked the running task, the status the
\* task finally holds is "failed" with an error that mentions cancellation.
C3_CancelledEndsFailed ==
  (pc = "done" /\ cancelAccepted) =>
     /\ tasks[ExecTask].status = "failed"
     /\ tasks[ExecTask].error \in {CancelError, HandlerCancelError}

\* C3 scenario: a cancelled task that ends "completed".
C3_CancelledCompleted ==
  pc = "done" /\ cancelAccepted /\ tasks[ExecTask].status = "completed"

\* C4: a run of execute issues at most 20 oracle calls and, every awaited
\* call returning, terminates; a run whose 20th oracle reply requests tool
\* calls ends failed with "Max iterations reached".
C4_CapEndsMaxIterations ==
  /\ [](oracleCalls <= maxIterations)
  /\ (pc = "queued") ~> (pc = "done")
  /\ []((pc = "done" /\ capReplyTools) =>
          (tasks[ExecTask].status = "failed" /\ tasks[ExecTask].error = MaxIterError))

\* C4 amended: as C4, but the run whose 20th reply requests tool calls ends
\* failed with "Max iterations reached", or with "Task cancelled by user"
\* when a cancel request preceded the check after that reply, or with the
\* parse error of a call whose arguments are not valid JSON.
C4_CapEndsFailed ==
  /\ [](oracleCalls <= maxIterations)
  /\ (pc = "queued") ~> (pc = "done")
  /\ []((pc = "done" /\ capReplyTools) =>
          /\ tasks[ExecTask].status = "failed"
          /\ tasks[ExecTask].error \in {MaxIterError, CancelError, ParseError}
          /\ (tasks[ExecTask].error = CancelError => cancelled))

\* C4 witness: a run whose 20th oracle reply requested tool calls has ended
\* with the max-iterations error.
C4_Witness ==
  /\ pc = "done"
  /\ capReplyTools
  /\ tasks[ExecTask].status = "failed"
  /\ tasks[ExecTask].error = MaxIterError

\* The calls a replay sent from the given statements, as tool name plus
\* arguments without the session identity.
StepCalls(steps) ==
  LET q == SelectSeq(sent, LAMBDA c : c.step \in steps)
  IN [i \in 1 .. Len(q) |->
        [function |-> q[i].function, arguments |-> StripSessionId(q[i].arguments)]]

\* The primary navigation returned without error (its screenshot followed).
NavSucceeded == \E i \in 1 .. Len(sent) : sent[i].step = "primaryShot"

\* C5: a finished replay whose primary navigation (if any) succeeded has
\* issued exactly the n recorded actions, in recorded order, whichever of
\* them failed.
C5_AllActionsIssued ==
  (rpc = "done" /\ (rTrace.url # None => NavSucceeded)) =>
     StepCalls({"action"}) = rTrace.actions

\* C5 amended: as C5, for a replay that adopted the session (the connection
\* to the provider was established).
C5_AllActionsIssuedOnceAdopted ==
  (rpc = "done" /\ adopted # None /\ (rTrace.url # None => NavSucceeded)) =>
     StepCalls({"action"}) = rTrace.actions

\* C5 witness: a finished replay of two recorded actions whose first, an act,
\* returned an error (no screenshot followed it) and whose second was issued.
C5_Witness ==
  /\ rpc = "done"
  /\ Len(rTrace.actions) = 2
  /\ \E k \in 1 .. Len(sent) - 1 :
       /\ sent[k].step = "action" /\ sent[k].function = Act
       /\ sent[k + 1].step = "action"

C7_ReplaySendsWhatRunIssued ==
  (rpc = "done" /\ adopted # None /\ rError = None) =>
     StepCalls({"primary", "action"}) = issued

\* C7 scenario: the run issued one successful navigate; the replay of its
\* trace sent that navigate twice.
C7_NavigateSentTwice ==
  /\ rpc = "done"
  /\ Len(issued) = 1
  /\ issued[1].function = Navigate
  /\ Len(StepCalls({"primary", "action"})) = 2
  /\ \A i \in 1 .. 2 : StepCalls({"primary", "action"})[i] = issued[1]

\* C8: when an oracle-requested tool call returns an error the run goes on
\* with the reply's next call (and so to the next oracle turn): the error is
\* appended as that call's tool result, nothing is added to the trace, and
\* neither the run's result nor the task record changes.
C8_ToolErrorContinues ==
  [][(pc = "tool" /\ lastOutcome' = "error") =>
       /\ pc' = "turn"
       /\ pending' = pending - 1
       /\ messages' = Append(messages, ToolMessage(callId, TRUE))
       /\ replayState' = replayState
       /\ execResult' = execResult
       /\ tasks' = tasks]_vars

\* C8 witness: an oracle-requested call has just returned an error, its
\* tool result is in the conversation, and calls of the reply remain.
C8_Witness ==
  /\ pc = "turn"
  /\ lastOutcome = "error"
  /\ pending > 0
  /\ messages = <<ToolMessage(callId, TRUE)>>
  /\ replayState.sessionId # None

\* C9: a finished replay is "completed" when the session was adopted and
\* the primary navigation (if any) succeeded, whatever recorded actions
\* failed; when the primary navigation returned an error it is "failed"
\* with the navigation error and no recorded action was reissued.
C9_ReplayOutcome ==
  (rpc = "done" /\ adopted # None) =>
     IF rTrace.url # None /\ ~NavSucceeded
     THEN /\ tasks[ReplayTask].status = "failed"
          /\ tasks[ReplayTask].error = NavigationFailed
          /\ StepCalls({"action"}) = <<>>
     ELSE tasks[ReplayTask].status = "completed"

\* C9 witness: a completed replay in which a reissued act returned an error
\* (no screenshot followed it).
C9_Witness ==
  /\ rpc = "done"
  /\ tasks[ReplayTask].status = "completed"
  /\ \E k \in 1 .. Len(sent) - 1 :
       /\ sent[k].step = "action" /\ sent[k].function = Act
       /\ sent[k + 1].step # "actionShot"

\* C9 second witness: a replay failed by its primary navigation.
C9_WitnessNavigationFailed ==
  /\ rpc = "done"
  /\ rTrace.actions # <<>>
  /\ tasks[ReplayTask].status = "failed"
  /\ tasks[ReplayTask].error = NavigationFailed

\* C10: a finished replay that adopted a session has sent a close-session
\* call for the adopted identity after every other call, and nothing but
\* close-session calls for that identity from then on.
C10_CloseIsLast ==
  (rpc = "done" /\ adopted # None) =>
     \E k \in 1 .. Len(sent) :
       /\ \A j \in 1 .. k - 1 : sent[j].function # SessionClose
       /\ \A j \in k .. Len(sent) :
            /\ sent[j].function = SessionClose
            /\ sent[j].arguments.sessionId = adopted

\* C10 witness: a replay failed by its primary navigation whose last call is
\* the close-session call for the adopted identity.
C10_Witness ==
  /\ rpc = "done"
  /\ adopted # None
  /\ tasks[ReplayTask].status = "failed"
  /\ Len(sent) = 2
  /\ sent[1].step = "primary"
  /\ sent[2].function = SessionClose
  /\ sent[2].arguments.sessionId = adopted

\* if (result.error) of the loop: undefined and the empty string are falsy.
isFailedStep(error) == error \notin {None, ""}

\* C11: callFunction never throws; when connecting or the tool call failed
\* it resolves to a result whose error the loop takes for a failed step, and
\* when the provider answered the result carries no error.
C11_CallFunctionNeverThrows ==
  mcpClient.op = "callFunction" =>
    /\ ~mcpClient.threw
    /\ mcpClient.io \in {"connectFailed", "notConnected", "callFailed", "answered"}
    /\ mcpClient.io # "answered" => isFailedStep(mcpClient.error)
    /\ mcpClient.io = "answered" => mcpClient.error = None

\* C11 witness: a tool call that was sent and failed resolved to a result
\* with an error.
C11_Witness ==
  /\ mcpClient.op = "callFunction"
  /\ mcpClient.io = "callFailed"
  /\ Len(mcpClient.wire) = 1
  /\ ~mcpClient.threw
  /\ mcpClient.error = UnknownError

\* C12: every tool call a McpClient put on the wire while it held an identity
\* carries that identity as sessionId, whatever sessionId the caller gave,
\* unless it is a session-creation call, which goes out with the caller's
\* arguments untouched; nothing else of the arguments changes.
C12_HeldIdentityInjected ==
  \A i \in 1 .. Len(mcpClient.wire) :
    LET w == mcpClient.wire[i]
        given == IF mcpClient.op = "callFunction" THEN mcpClient.call.arguments ELSE NoArgs
    IN /\ (mcpClient.held # None /\ w.function # SessionCreate)
            => w.arguments.sessionId = mcpClient.held
       /\ (mcpClient.held = None \/ w.function = SessionCreate) => w.arguments = given
       /\ w.arguments.url = given.url

\* C12 witness: a navigate whose caller supplied another sessionId went out
\* with the held identity.
C12_Witness ==
  /\ mcpClient.op = "callFunction"
  /\ mcpClient.held = "s1"
  /\ mcpClient.call = [function |-> Navigate,
                       arguments |-> [url |-> "u1", sessionId |-> OracleSid]]
  /\ mcpClient.wire = <<[function |-> Navigate,
                         arguments |-> [url |-> "u1", sessionId |-> "s1"]]>>

\* C13: in a replay, createSession(sessionId) puts no call on the wire and
\* makes the stored identity the held one: the first call the provider sees is
\* the primary navigation or a recorded action, no session-creation call is
\* ever sent, every call carries the stored identity, and the client never
\* holds another identity, so no session is minted.
C13_AdoptedNotMinted ==
  /\ \A i \in 1 .. Len(sent) :
       /\ sent[i].function # SessionCreate
       /\ sent[i].arguments.sessionId = rTrace.sessionId
  /\ mcp["replay"].sessionId \in {None, rTrace.sessionId}
  /\ adopted # None =>
       /\ adopted = rTrace.sessionId
       /\ rpc \notin {"closeClient", "finalCloseClient", "done"}
            => mcp["replay"].sessionId = adopted

\* C13 witness: a completed replay whose navigation and recorded action went
\* out with the adopted identity.
C13_Witness ==
  /\ rpc = "done"
  /\ adopted = "s1"
  /\ tasks[ReplayTask].status = "completed"
  /\ Len(sent) >= 3
  /\ sent[1].step = "primary"
  /\ sent[1].arguments.sessionId = "s1"
  /\ \E i \in 2 .. Len(sent) :
       /\ sent[i].step = "action"
       /\ sent[i].arguments.sessionId = "s1"

CloseOps == {"close", "closeSession"}

\* C14: close and closeSession never throw, whether the close-session call
\* or the teardown of the transport fails or not; when the close-session call
\* of one of them succeeded the client holds no identity, a close call made
\* without an identity sends nothing, and so the close call that follows a
\* successful one sends no close-session call.
C14_CloseNeverThrows ==
  /\ [](mcpClient.op \in CloseOps =>
          /\ ~mcpClient.threw
          /\ mcpClient.io = "answered" => mcpClient.sessionId = None
          /\ mcpClient.held = None => mcpClient.wire = <<>>)
  /\ [][(/\ mcpClient.op \in CloseOps
         /\ mcpClient.io = "answered"
         /\ mcpClient'.op \in CloseOps
         /\ mcpClient'.calls = mcpClient.calls + 1)
          => (mcpClient'.wire = <<>> /\ ~mcpClient'.threw)]_vars

\* C14 witness: a close() whose close-session call and whose teardown both
\* failed returned normally, the identity still held.
C14_Witness ==
  /\ mcpClient.op = "close"
  /\ mcpClient.held = "s1"
  /\ mcpClient.io = "callFailed"
  /\ mcpClient.wire = <<[function |-> SessionClose,
                         arguments |-> [url |-> None, sessionId |-> "s1"]]>>
  /\ mcpClient.sessionId = "s1"
  /\ mcpClient.client = "connected"
  /\ ~mcpClient.threw

\* C14 second witness: a close call made right after one whose close-session
\* call succeeded.
C14_WitnessClosedAgain ==
  /\ mcpClient.op = "close"
  /\ mcpClient.calls = 3
  /\ mcpClient.held = None
  /\ mcpClient.client = "closed"
  /\ mcpClient.transports = 1
  /\ mcpClient.wire = <<>>

\* C15: connect() called on a connected client is a no-op: it creates no
\* second transport and the connection in use stays the one there was.
C15_ConnectIdempotent ==
  [][(/\ mcpClient.client = "connected"
      /\ mcpClient'.op = "connect"
      /\ mcpClient'.calls = mcpClient.calls + 1)
       => (/\ mcpClient'.transports = mcpClient.transports
           /\ mcpClient'.client = "connected"
           /\ ~mcpClient'.threw)]_vars

\* C15 witness: the second connect() of a connected client created a second
\* transport, failed, and left the client with a Client that is not connected.
C15_SecondTransport ==
  /\ mcpClient.op = "connect"
  /\ mcpClient.calls = 2
  /\ mcpClient.was = "connected"
  /\ mcpClient.transports = 2
  /\ mcpClient.client = "unconnected"
  /\ mcpClient.threw

\* C16: listTools throws when the provider could not be reached, and returns the
\* empty list without throwing only when the provider answered with no tools.
C16_ListToolsPropagates ==
  mcpClient.op = "listTools" =>
    /\ mcpClient.io # "answered" => mcpClient.threw
    /\ (~mcpClient.threw /\ mcpClient.value = "empty") => mcpClient.io = "answered"

\* C16 witness: listTools on a client whose connect failed returned the empty
\* list.
C16_UnreachableReturnsEmpty ==
  /\ mcpClient.op = "listTools"
  /\ mcpClient.was = "null"
  /\ mcpClient.io = "connectFailed"
  /\ ~mcpClient.threw
  /\ mcpClient.value = "empty"

\* C17: when the run of a task that acquired a session ends, the task is
\* completed or failed and its record holds the trace of the run, whose
\* session identity is not empty; a trace held by any task record has a
\* session identity, and every failed task has an error message that is not
\* empty.
C17_TraceStoredAtEnd ==
  /\ [][(pc # "done" /\ pc' = "done" /\ minted' # None) =>
          /\ tasks'[ExecTask].status \in {"completed", "failed"}
          /\ replayState'.sessionId = minted'
          /\ tasks'[ExecTask].replayState = replayState']_vars
  /\ [](\A t \in TaskIds :
          /\ tasks[t].replayState # NoTrace => tasks[t].replayState.sessionId # None
          /\ tasks[t].status = "failed" => tasks[t].error \notin {None, ""})

\* C17 witness: a run that recorded one action and failed has ended, its
\* trace on the failed task.
C17_Witness ==
  /\ pc = "done"
  /\ rpc = "idle"
  /\ minted = "s1"
  /\ tasks[ExecTask].status = "failed"
  /\ tasks[ExecTask].error = OracleError
  /\ tasks[ExecTask].replayState.sessionId = "s1"
  /\ Len(tasks[ExecTask].replayState.actions) = 1

\* C18: once cancel() has been called, at most one tool call the oracle
\* requested returns to the loop (the one in flight at that moment); the
\* screenshots the loop takes by itself and the close-session call are not
\* counted.
C18_AtMostOneLateCall == lateCalls <= 1

\* C18 witness: cancel() was called during the first of two calls of one
\* oracle reply, and both calls returned without error after it.
C18_TwoLateCalls ==
  /\ cancelled
  /\ oracleCalls = 1
  /\ lateCalls = 2
  /\ Len(issued) = 2

\* C19: when the cancellation flag is set as the loop condition is evaluated,
\* execute makes no oracle call, returns failure with the cancellation error,
\* and leaves the trace as it was.
C19_CancelledAtLoopTopFails ==
  [][(pc = "loop" /\ cancelled) =>
       /\ pc' # "oracle"
       /\ oracleCalls' = oracleCalls
       /\ replayState' = replayState
       /\ execResult' = Failure(CancelError)]_vars

\* C19 witness: cancel() was called during a tool call that was then
\* recorded; the loop condition ended the loop and execute is returning
\* success, "Task completed".
C19_CancelledReturnsSuccess ==
  /\ pc = "closeSession"
  /\ cancelled
  /\ lateCalls = 1
  /\ oracleCalls = 1
  /\ Len(replayState.actions) = 1
  /\ execResult = Success("Task completed")

Running == {t \in TaskIds : tasks[t].status = "running"}

\* C20: at most one task has status "running".
C20_OneRunningTask == Cardinality(Running) <= 1

\* C20 witness: the task of an execute request and the task of a replay
\* request are both "running", each with its run in flight.
C20_TwoRunning ==
  /\ Running = {ExecTask, ReplayTask}
  /\ pc = "createSession"
  /\ rpc = "nav"

Terminal == {"completed", "failed"}

\* C21: a task's stored status goes from running to completed or to failed
\* and, once completed or failed, never changes again.
C21_TerminalStatusStays ==
  [][\A t \in TaskIds :
       /\ tasks[t].status \in Terminal => tasks'[t].status = tasks[t].status
       /\ tasks'[t].status # tasks[t].status =>
            \/ tasks[t].status = None /\ tasks'[t].status = "running"
            \/ tasks[t].status = "running" /\ tasks'[t].status \in Terminal]_vars

\* C21 witness: the task that the cancel handler had set to failed was set to
\* completed by the callback of its run; the record still carries the cancel
\* handler's error.
C21_FailedThenCompleted ==
  /\ pc = "done"
  /\ tasks[ExecTask].status = "completed"
  /\ tasks[ExecTask].error = HandlerCancelError
  /\ tasks[ExecTask].result = "Task completed"

\* C22: a task record is created with status "running" (the record that the
\* request returns), and, every awaited call returning, a running task of an
\* execute or of a replay request eventually is completed or failed.
C22_RunningEndsTerminal ==
  /\ [][\A t \in TaskIds :
          (tasks[t].status = None /\ tasks'[t].status # None)
             => tasks'[t].status = "running"]_vars
  /\ \A t \in {ExecTask, ReplayTask} :
       (tasks[t].status = "running") ~> (tasks[t].status \in Terminal)

\* C22 witness: both the execute task and the replay task have ended.
C22_Witness ==
  /\ pc = "done"
  /\ rpc = "done"
  /\ tasks[ExecTask].status = "completed"
  /\ tasks[ReplayTask].status = "failed"
  /\ ~cancelled

\* ============================================================ the routes
\* The handlers of POST /api/tasks/execute and POST /api/tasks/:id/replay from
\* the arrival of the request to the response, the rejections included.  All
\* their awaits are on the in-memory storage, so a handler runs in one step.
NoKeyError == "OpenAI API key not configured"
ValidationError == "prompt: Required"
TaskNotFound == "Task not found"
NoReplayState == "No replay state available for this task"

\* The prompt of a request body: none, the empty string, a text.
Prompts == {None, "", "p"}

\* insertTaskSchema.parse: prompt is z.string().
insertTaskSchemaAccepts(prompt) == prompt # None

\* Everything but the latest request and its response.
behind ==
  <<pc, execLocals, cancelled, replayState, mcp, currentOrchestrator, currentTaskId,
    tasks, execResult, histExec, closeSent, cancelAccepted, lateCalls, replayVars, mcpClient,
    second, rejected, snapshot>>

Request(route, key, prompt, id) ==
  [route |-> route, key |-> key, prompt |-> prompt, id |-> id,
   status |-> 0, message |-> None, task |-> None]
Rejected(req, status, message) == [req EXCEPT !.status = status, !.message = message]
Accepted(req, task) == [req EXCEPT !.status = 200, !.task = task]

PostExecute ==
  \E key \in BOOLEAN, prompt \in Prompts :
    LET req == Request("execute", key, prompt, None) IN
    IF ~key
      THEN http' = Rejected(req, 400, NoKeyError) /\ UNCHANGED behind
    ELSE IF ~insertTaskSchemaAccepts(prompt)
      THEN http' = Rejected(req, 400, ValidationError) /\ UNCHANGED behind
    ELSE AcceptExecute /\ http' = Accepted(req, ExecTask)

PostReplayOf(id) ==
    LET req == Request("replay", TRUE, None, id) IN
    IF tasks[id].status = None
      THEN http' = Rejected(req, 404, TaskNotFound) /\ UNCHANGED behind
    ELSE IF tasks[id].replayState = NoTrace
      THEN http' = Rejected(req, 400, NoReplayState) /\ UNCHANGED behind
    ELSE AcceptReplay(id) /\ http' = Accepted(req, ReplayTask)

PostReplay == \E id \in TaskIds : PostReplayOf(id)

NextRequests == PostExecute \/ PostReplay \/ StartupStep \/ Cancel \/ ReplayStep

\* Any execute and replay request on the server that holds an earlier task with
\* a trace, the execute run followed as far as its createSession().
SpecRequests == InitServer /\ [][NextRequests]_vars

\* What a request must not do when it is rejected: no task record, no client
\* connected, no oracle call.
Untouched ==
  /\ tasks' = tasks
  /\ currentTaskId' = currentTaskId
  /\ mcp' = mcp
  /\ oracleCalls' = oracleCalls
  /\ pc' = pc
  /\ rpc' = rpc

\* C23: an execute request without credentials, or with a missing or an empty
\* prompt, and a replay request for a task without a trace, is answered with
\* an error and creates no task record and contacts neither the provider nor
\* the oracle.
C23_BadRequestRejected ==
  [][/\ (http' # http /\ http'.route = "execute" /\ (~http'.key \/ http'.prompt \in {None, ""}))
          => (http'.status = 400 /\ Untouched)
     /\ (http' # http /\ http'.route = "replay" /\ tasks[http'.id].replayState = NoTrace)
          => (http'.status \in {400, 404} /\ Untouched)]_vars

\* An execute request with the empty prompt is answered with a task, and the
\* task is running.
C23_EmptyPromptAccepted ==
  /\ http.route = "execute"
  /\ http.prompt = ""
  /\ http.status = 200
  /\ http.task = ExecTask
  /\ tasks[ExecTask].status = "running"
  /\ pc = "queued"

\* POST /api/tasks/:id/cancel-replay: the trace of the task is removed, whatever
\* the task and any replay of it are doing.
CancelReplay(id) ==
    LET req == Request("cancel-replay", TRUE, None, id) IN
    IF tasks[id].status = None
      THEN http' = Rejected(req, 404, TaskNotFound) /\ UNCHANGED behind
    ELSE /\ tasks' = updateTask(tasks, id, [replayState |-> NoTrace])
         /\ currentTaskId' = updateCurrent(tasks, currentTaskId, id, [replayState |-> NoTrace])
         /\ http' = Accepted(req, id)
         /\ UNCHANGED <<pc, execLocals, cancelled, replayState, mcp, currentOrchestrator,
                        execResult, histExec, closeSent, cancelAccepted, lateCalls,
                        replayVars, mcpClient, second, rejected, snapshot>>

NextTraces ==
  ExecuteRequest \/ RunStep \/ PostReplayOf(ExecTask) \/ ReplayStep \/ CancelReplay(ExecTask)

\* One execute run from its request to its end, with replay and cancel-replay
\* requests for its task at any time.
SpecTraces == Init /\ [][NextTraces]_vars

\* C24: when a replay of the trace of a task has run to its end, and when the
\* latest request was a cancel-replay for the task, the task holds no trace (so
\* a replay request for it is answered "No replay state available").
C24_ConsumedTraceCleared ==
  /\ rpc = "done" => tasks[rTaskId].replayState = NoTrace
  /\ (http.route = "cancel-replay" /\ http.status = 200) => tasks[http.id].replayState = NoTrace
  /\ (http.route = "replay" /\ http.status = 400) => http.message = NoReplayState

\* The replay of the task ended in failure and the task still holds its trace.
C24_TraceKeptAfterFailedReplay ==
  /\ rpc = "done"
  /\ tasks[ReplayTask].status = "failed"
  /\ rTaskId = ExecTask
  /\ tasks[ExecTask].replayState # NoTrace
  /\ tasks[ExecTask].replayState = rTrace

\* cancel-replay was the latest request, made while the run of the task was
\* going on; the run ended afterwards and the task holds its trace.
C24_TraceStoredAfterCancelReplay ==
  /\ http.route = "cancel-replay"
  /\ http.status = 200
  /\ http.id = ExecTask
  /\ pc = "done"
  /\ tasks[ExecTask].replayState # NoTrace

\* -------------------------------------------- a further replay request
\* A replay request that arrives while or after the one above is served: its
\* own task, its own McpClient.  Its callback is followed as far as the
\* identity its client holds is concerned: the navigation and the actions
\* between the adoption and mcpClient.close() are one step.
secondVars ==
  <<pc, execLocals, cancelled, replayState, mcp, currentOrchestrator, execResult, histExec,
    cancelAccepted, lateCalls, replayVars, mcpClient, http, rejected, snapshot>>

SecondReplayRequest ==
  /\ second.pc = "idle"
  /\ \E id \in TaskIds \ {ReplayTask, SecondTask} :
       /\ tasks[id].status # None
       /\ tasks[id].replayState # NoTrace
       /\ second' = [pc |-> "queued", m |-> [client |-> "null", sessionId |-> None],
                     trace |-> tasks[id].replayState, task |-> id]
  /\ tasks' = updateTask(createTask(tasks, SecondTask), SecondTask, [status |-> "running"])
  /\ currentTaskId' = SecondTask
  /\ UNCHANGED <<secondVars, closeSent>>

SecondStart ==
  /\ second.pc = "queued"
  /\ second' = [second EXCEPT !.pc = "connect", !.m.client = "unconnected"]
  /\ UNCHANGED <<secondVars, closeSent, tasks, currentTaskId>>

SecondFailed(err) ==
  /\ tasks' = updateTask(tasks, SecondTask, [status |-> "failed", error |-> err])
  /\ currentTaskId' = updateCurrent(tasks, currentTaskId, SecondTask,
                                    [status |-> "failed", error |-> err])

\* connect() returned and createSession(sessionId) adopted the identity, or
\* connect() threw.
SecondConnectReturns ==
  /\ second.pc = "connect"
  /\ \E ok \in BOOLEAN :
       IF ok
       THEN /\ second' = [second EXCEPT
                            !.pc = "replaying",
                            !.m = adoptSession([@ EXCEPT !.client = "connected"],
                                               second.trace.sessionId)]
            /\ UNCHANGED <<tasks, currentTaskId>>
       ELSE /\ second' = [second EXCEPT !.pc = "finally"]
            /\ SecondFailed(ProviderError)
  /\ UNCHANGED <<secondVars, closeSent>>

\* The navigation and the recorded actions went through, or one of them threw.
SecondReplayed ==
  /\ second.pc = "replaying"
  /\ \E ok \in BOOLEAN :
       IF ok
       THEN second' = [second EXCEPT !.pc = "close"] /\ UNCHANGED <<tasks, currentTaskId>>
       ELSE second' = [second EXCEPT !.pc = "finally"] /\ SecondFailed(NavigationFailed)
  /\ UNCHANGED <<secondVars, closeSent>>

\* mcpClient.close(): closeSession() when an identity is held, then the
\* transport teardown; both swallow their errors.
SecondClosed(m, okSession, okClient) ==
  closeClientDone(IF m.sessionId # None THEN closeSessionDone(m, okSession) ELSE m, okClient)

SecondCloseSent(cs, m) ==
  IF m.sessionId # None
  THEN CountClose(cs, m, SessionClose, InjectSession(m, SessionClose, NoArgs))
  ELSE cs

\* mcpClient.close() of the try block returned: the replay task is completed
\* and the trace of the original task is removed.
SecondCloseReturns ==
  /\ second.pc = "close"
  /\ \E okSession, okClient \in BOOLEAN :
       second' = [second EXCEPT !.pc = "finally",
                                !.m = SecondClosed(second.m, okSession, okClient)]
  /\ closeSent' = SecondCloseSent(closeSent, second.m)
  /\ tasks' = updateTask(updateTask(tasks, SecondTask,
                                    [status |-> "completed",
                                     result |-> "Replay completed successfully"]),
                         second.task, [replayState |-> NoTrace])
  /\ currentTaskId' = None
  /\ UNCHANGED secondVars

\* finally { await mcpClient.close() } returned.
SecondFinalCloseReturns ==
  /\ second.pc = "finally"
  /\ \E okSession, okClient \in BOOLEAN :
       second' = [second EXCEPT !.pc = "done",
                                !.m = SecondClosed(second.m, okSession, okClient)]
  /\ closeSent' = SecondCloseSent(closeSent, second.m)
  /\ UNCHANGED <<secondVars, tasks, currentTaskId>>

SecondReplay ==
  \/ SecondReplayRequest
  \/ SecondStart
  \/ SecondConnectReturns
  \/ SecondReplayed
  \/ SecondCloseReturns
  \/ SecondFinalCloseReturns

\* Execute, cancel and two replay requests in any order on the server that
\* holds an earlier task with a trace.
SpecTwoReplays == InitServer /\ [][NextServer \/ SecondReplay]_vars

\* The McpClient instances there are, and the identity an instance holds from
\* creating or adopting it until closeSession() has cleared it.
Clients == {"exec", "replay", "second"}
ClientOf(c) == IF c = "second" THEN second.m ELSE mcp[c]
Holds(c, sid) == ClientOf(c).client = "connected" /\ ClientOf(c).sessionId = sid

\* C25: no session identity is held by two McpClient instances at once.
C25_OneHolder ==
  \A sid \in SessionIds : \A c, d \in Clients : (Holds(c, sid) /\ Holds(d, sid)) => c = d

\* Two replays of the same task are going on and both clients hold the
\* identity of its trace.
C25_TwoHolders ==
  /\ rTaskId = second.task
  /\ rpc \in {"nav", "navShot", "action", "actShot"}
  /\ second.pc = "replaying"
  /\ Holds("replay", PriorTrace.sessionId)
  /\ Holds("second", PriorTrace.sessionId)
  /\ tasks[ReplayTask].status = "running"
  /\ tasks[SecondTask].status = "running"

\* C26: while connect() and listTools() are awaited no identity has been
\* minted, no oracle call made and no trace started; and when connect() throws
\* or listTools() yields no tool the run ends there: execute returns a failure,
\* still nothing is minted, called or recorded, and the task is failed with no
\* trace.
C26_StartupFailureEndsRun ==
  /\ [](pc \in {"queued", "connect", "listTools"} =>
          /\ minted = None
          /\ mcp["exec"].sessionId = None
          /\ oracleCalls = 0
          /\ issued = <<>>
          /\ replayState = NoTrace)
  /\ [][(pc \in {"connect", "listTools"} /\ pc' \notin {pc, "listTools", "createSession"}) =>
          /\ pc' = "done"
          /\ ~execResult'.success
          /\ execResult'.error = (IF pc = "connect" THEN ProviderError ELSE NoToolsError)
          /\ minted' = None
          /\ mcp'["exec"].sessionId = None
          /\ oracleCalls = 0
          /\ issued' = <<>>
          /\ closeSent' = closeSent
          /\ tasks'[ExecTask].status = "failed"
          /\ tasks'[ExecTask].replayState = NoTrace]_vars

\* The run ended because the provider offered no tool.
C26_Witness ==
  /\ pc = "done"
  /\ execResult = Failure(NoToolsError)
  /\ mcp["exec"].client = "connected"
  /\ minted = None
  /\ tasks[ExecTask].status = "failed"
  /\ tasks[ExecTask].error = NoToolsError
  /\ tasks[ExecTask].replayState = NoTrace

\* ------------------------------------------------------------- onLog throws
\* onLog is the callback the Orchestrator is constructed with; execute awaits
\* it after every call it awaits inside the try block, once in the catch
\* block and once in the finally block before mcpClient.close().
LogError == "log error"

\* Where execute is suspended in a call that a log call follows.
LogPcs == {"connect", "listTools", "createSession", "oracle", "tool", "shot"}

\* The awaited call returned and the onLog call after it threw (at
\* createSession: the identity was returned and assigned first).  The catch
\* block logs again and the finally block logs before it closes: `inCatch` and
\* `inFinally` are whether those calls throw too.  An error that leaves the
\* catch or the finally block rejects the promise of execute(), and the
\* callback of the route makes a failure of it.
LogThrows ==
  /\ pc \in LogPcs
  /\ \E inCatch, inFinally \in BOOLEAN :
       LET sid == IF pc = "createSession" THEN FirstSession ELSE sessionId
           m == IF pc = "createSession" THEN [mcp EXCEPT !["exec"].sessionId = sid] ELSE mcp
       IN /\ minted' = IF pc = "createSession" THEN sid ELSE minted
          /\ rejected' = (inCatch \/ (sid # None /\ inFinally))
          /\ IF sid # None /\ inFinally
             THEN /\ Callback(Failure(LogError))
                  /\ mcp' = m
                  /\ UNCHANGED closeSent
             ELSE Finally(Failure(LogError), sid, m)
  /\ lateCalls' = IF pc = "tool" /\ cancelled THEN lateCalls + 1 ELSE lateCalls
  /\ UNCHANGED <<turnLocals, cancelled, replayState, replayVars, mcpClient, http, second, snapshot,
                 capReplyTools, lastOutcome, issued, cancelAccepted>>

\* One execute request with cancel requests at any await and a logger that may
\* throw.
SpecLogging == Init /\ [][NextExecute \/ LogThrows]_vars

\* C27: the promise of execute() is never rejected; when execute ends in
\* failure the task is failed; and a run that obtained a session ends from
\* mcpClient.close().
C27_ExecuteNeverRejects ==
  [][/\ ~rejected'
     /\ (pc' = "done" /\ ~execResult'.success) => tasks'[ExecTask].status = "failed"
     /\ (pc # "done" /\ pc' = "done" /\ minted' # None) => pc = "closeClient"]_vars

\* The log call after createSession() threw, and so did those of the catch
\* and finally blocks: execute() was rejected, the task is failed, and the
\* session was never closed.
C27_RejectedWithSessionOpen ==
  /\ pc = "done"
  /\ rejected
  /\ execResult = Failure(LogError)
  /\ tasks[ExecTask].status = "failed"
  /\ minted = FirstSession
  /\ mcp["exec"] = [client |-> "connected", sessionId |-> FirstSession]
  /\ closeSent[FirstSession] = 0

\* ------------------------------------------------------------- screenshots
\* A string as far as normalizeScreenshot and the patterns of extractScreenshot
\* look at it: what it starts with, whether what follows (for a data URL: what
\* follows ";base64,") is made of base64 characters only, how long it is, and
\* what it ends with.
Str(scheme, b64, size, ext) == [scheme |-> scheme, b64 |-> b64, size |-> size, ext |-> ext]

\* data:image/png;base64,iVBOR...   and   data:image/svg+xml;utf8,<svg ...
DataUrls == {Str("data:image/", TRUE, "long", None), Str("data:image/", FALSE, "long", None)}
\* https://host/shot.png   and   http://host/page.html
HttpUrls == {Str("https://", FALSE, "short", "png"), Str("http://", FALSE, "short", "html")}
\* base64 characters only: up to 100 of them, more than 100, 1000 or more
Base64s == {Str(None, TRUE, z, None) : z \in {"short", "long", "huge"}}
\* anything else
Words == {Str(None, FALSE, "short", None)}
Strs == DataUrls \cup HttpUrls \cup Base64s \cup Words

\* `data:image/png;base64,${screenshot}`
Prefixed(screenshot) == Str("data:image/", screenshot.b64, screenshot.size, None)

\* McpClient.normalizeScreenshot
normalizeScreenshot(screenshot) ==
  IF screenshot.scheme = "data:image/" THEN screenshot
  ELSE IF screenshot.scheme = None /\ screenshot.b64 /\ screenshot.size # "short"
    THEN Prefixed(screenshot)
  ELSE IF screenshot.scheme \in {"http://", "https://"} THEN screenshot
  ELSE Prefixed(screenshot)

\* Content items of a response.  An image item carries data, source.data or
\* source.uri; a text item is a string `inner` as it is, inside a fenced
\* block, or as the value of a JSON property "image", "screenshot" or "data".
ImageItem(field, s) == [type |-> "image", field |-> field, shape |-> None, inner |-> s]
TextItem(shape, s) == [type |-> "text", field |-> None, shape |-> shape, inner |-> s]

Items ==
  {ImageItem(f, s) : f \in {"data", "source.data"}, s \in Base64s \cup DataUrls}
    \cup {ImageItem("source.uri", s) : s \in HttpUrls \cup DataUrls}
    \cup {ImageItem(None, Str(None, FALSE, "short", None))}
    \cup {TextItem(shape, s) : shape \in {"plain", "fenced", "json"}, s \in Strs}

\* The raw screenshot one item yields, null when it yields none.
rawScreenshot(item) ==
  IF item.type = "image"
  THEN IF item.field # None THEN item.inner ELSE NoStr
  ELSE LET s == item.inner IN
       \* patterns 1 and 2: data:image/...;base64,... anywhere in the text
       IF s.scheme = "data:image/" /\ s.b64 THEN s
       \* pattern 3: "image|screenshot|data": "data:image/..."
       ELSE IF item.shape = "json" /\ s.scheme = "data:image/" THEN s
       \* pattern 4: an http(s) URL ending in an image extension
       ELSE IF s.scheme \in {"http://", "https://"} /\ s.ext = "png" THEN s
       \* pattern 5: the whole text is 1000 or more base64 characters
       ELSE IF item.shape = "plain" /\ s.scheme = None /\ s.b64 /\ s.size = "huge" THEN s
       ELSE NoStr

\* for (const item of content): the first item that yields a raw screenshot.
RECURSIVE firstRaw(_)
firstRaw(content) ==
  IF content = <<>> THEN NoStr
  ELSE IF rawScreenshot(Head(content)) # NoStr THEN rawScreenshot(Head(content))
  ELSE firstRaw(Tail(content))

\* McpClient.extractScreenshot
extractScreenshot(content) ==
  IF firstRaw(content) # NoStr THEN normalizeScreenshot(firstRaw(content)) ELSE NoStr

\* Number of content items of a response.
MaxItems == 2

\* callFunction looks for a screenshot in the content of a response.
ExtractScreenshot ==
  /\ snapshot = NoSnapshot
  /\ \E n \in 1 .. MaxItems : \E content \in [1 .. n -> Items] :
       snapshot' = [content |-> content, screenshot |-> extractScreenshot(content)]
  /\ UNCHANGED <<serverVars, mcpClient>>

SpecSnapshot == Init /\ [][ExtractScreenshot]_vars

\* A data:image URL with a base64 payload.
IsDataImage(s) == s.scheme = "data:image/" /\ s.b64

\* C28: a screenshot extracted from a response is a data:image URL with a
\* base64 payload, whatever the items of the content are.
C28_ScreenshotIsDataImage ==
  snapshot.screenshot # NoStr => IsDataImage(snapshot.screenshot)

\* An image item that carries a source.uri: the URL is returned as it is.
C28_UrlReturnedAsIs ==
  /\ snapshot.content = <<ImageItem("source.uri", Str("https://", FALSE, "short", "png"))>>
  /\ snapshot.screenshot = Str("https://", FALSE, "short", "png")

\* Where execute is inside mcpClient.close() of its finally block.
ClosePcs == {"closeSession", "closeClient"}

\* C29: when an oracle reply arrives while the cancellation flag is set, the
\* run takes up none of its tool calls: it goes to its finally block with the
\* failure "Task cancelled by user", the close-session call is sent for the
\* held identity, and from there the run sends no call and ends with that
\* failure as its result and the task failed.
C29_CancelledReplyNotExecuted ==
  [][/\ (pc = "oracle" /\ cancelled /\ messages' # messages) =>
          /\ pc' \in ClosePcs
          /\ execResult' = Failure(CancelError)
          /\ pending' = pending
          /\ cur' = cur
          /\ requested' = requested
          /\ issued' = issued
          /\ pc' = "closeSession" <=> mcp["exec"].sessionId # None
          /\ \A sid \in SessionIds :
               closeSent'[sid] = closeSent[sid] + (IF mcp["exec"].sessionId = sid THEN 1 ELSE 0)
     /\ (pc \in ClosePcs /\ pc' # pc) =>
          /\ pc' \in ClosePcs \cup {"done"}
          /\ execResult' = execResult
          /\ issued' = issued
          /\ cur' = cur
          /\ closeSent' = closeSent
          /\ (pc' = "done" /\ ~execResult.success) => tasks'[ExecTask].status = "failed"]_vars

\* The reply that arrived after the cancel request asked for tool calls; the
\* run ended cancelled with the session closed once and no call made.
C29_Witness ==
  /\ pc = "done"
  /\ cancelled
  /\ messages # <<>>
  /\ messages[1].role = "assistant"
  /\ messages[1].id > 0
  /\ execResult = Failure(CancelError)
  /\ issued = <<>>
  /\ closeSent[FirstSession] = 1
  /\ mcp["exec"] = [client |-> "closed", sessionId |-> None]
  /\ tasks[ExecTask].status = "failed"

\* Where execute awaits a call it sent to the provider for the oracle.
CallPcs == {"tool", "shot"}

\* C30: a call is in flight exactly while execute awaits it or the screenshot
\* taken after it; the next call of the reply is sent only when none is in
\* flight, and it is the next one in the order of the reply; a call in flight
\* ends in its screenshot or back in the for loop; and the oracle is called
\* only from the head of the while loop, where no call of the reply is in
\* flight or left.
C30_OneCallAtATime ==
  /\ [](/\ pc \in CallPcs <=> cur # NoCall
        /\ pc \in {"loop", "oracle"} => (pending = 0 /\ cur = NoCall))
  /\ [][/\ (cur' # cur /\ cur' # NoCall) =>
             /\ pc = "turn"
             /\ cur = NoCall
             /\ pending > 0
             /\ pc' = "tool"
             /\ callId' = callId + 1
             /\ pending' = pending
        /\ (pc = "tool" /\ pc' # pc) => (pc' \in {"shot", "turn"} /\ callId' = callId)
        /\ (pc = "shot" /\ pc' # pc) => (pc' = "turn" /\ callId' = callId)
        /\ (pc \in CallPcs /\ pc' = "turn") => (pending' = pending - 1 /\ cur' = NoCall)
        /\ oracleCalls' > oracleCalls => (pc = "loop" /\ pc' = "oracle")]_vars

\* The second call of a reply is in flight; the first one returned and was
\* followed by its screenshot.
C30_Witness ==
  /\ pc = "tool"
  /\ oracleCalls = 1
  /\ callId = 2
  /\ pending = 1
  /\ cur.function = Act
  /\ Len(issued) = 1
  /\ issued[1].function = Navigate
  /\ lastOutcome = None

\* Tools after which the loop takes a screenshot of its own.
PageTools == {Navigate, Act, Observe}

\* C31: the loop sends a screenshot call of its own exactly after a call of
\* navigate, act or observe that returned without error and without an image,
\* one per such call; whatever that screenshot call returns, the result of the
\* oracle's call is pushed as a success, the for loop goes on, neither the
\* result of execute nor the task changes, and nothing is added to the trace.
C31_OneProactiveScreenshot ==
  [][/\ (pc = "tool" /\ pc' = "shot") =>
          /\ cur.function \in PageTools
          /\ lastOutcome' = "ok"
          /\ messages' = messages
     /\ (pc = "tool" /\ pc' = "turn" /\ lastOutcome' = "ok" /\ cur.function \in PageTools) =>
          messages' = messages \o <<ToolMessage(callId, FALSE), ImageMessage>>
     /\ (pc = "shot" /\ pc' # pc) =>
          /\ pc' = "turn"
          /\ messages'[1] = ToolMessage(callId, FALSE)
          /\ pending' = pending - 1
          /\ replayState' = replayState
          /\ issued' = issued
          /\ execResult' = execResult
          /\ tasks' = tasks
          /\ iterationCount' = iterationCount]_vars

\* A navigate call returned without an image, the screenshot taken after it
\* brought none either, and the loop is back at the next call of the reply
\* with the navigation alone in the trace.
C31_Witness ==
  /\ pc = "turn"
  /\ pending = 1
  /\ callId = 1
  /\ lastOutcome = "ok"
  /\ messages = <<ToolMessage(1, FALSE)>>
  /\ Len(replayState.actions) = 1
  /\ replayState.actions[1].function = Navigate
  /\ ~cancelled

\* C32: a cancel request that marks a task marks the task of the execute run
\* whose orchestrator it cancels, and no other one.  (A step that changes a
\* task while neither callback moves is a cancel request.)
C32_CancelMarksItsTask ==
  [][(pc' = pc /\ rpc' = rpc /\ tasks' # tasks) =>
       /\ cancelled'
       /\ currentOrchestrator = "exec"
       /\ tasks'[ExecTask].status = "failed"
       /\ \A t \in TaskIds \ {ExecTask} : tasks'[t] = tasks[t]]_vars

\* The orchestrator of the execute run is cancelled, its task is still
\* running, and the task the cancel request marked failed is the replay task,
\* whose replay goes on.
C32_ReplayTaskMarked ==
  /\ cancelled
  /\ pc \in AwaitPcs
  /\ tasks[ExecTask].status = "running"
  /\ tasks[ReplayTask].status = "failed"
  /\ tasks[ReplayTask].error = HandlerCancelError
  /\ rpc \in {"connect", "nav", "navShot", "action", "actShot"}

\* Execute, cancel and replay requests on the server that holds an earlier
\* task with a trace, and cancel-replay requests for that earlier task.
SpecCurrent == InitServer /\ [][NextServer \/ CancelReplay(PriorTask)]_vars

\* C33: while some task is running getCurrentTask returns a running task, and
\* it returns null only when no task is running.
C33_CurrentIsRunning ==
  /\ Running # {} => getCurrentTask(tasks, currentTaskId) \in Running
  /\ Running = {} => getCurrentTask(tasks, currentTaskId) = None

\* The task of the execute run is the only running one and was current; a
\* cancel-replay request for the earlier, finished task was answered, and
\* getCurrentTask returns null.
C33_RunningTaskNotCurrent ==
  /\ http.route = "cancel-replay"
  /\ http.id = PriorTask
  /\ http.status = 200
  /\ tasks[PriorTask].status \in Terminal
  /\ Running = {ExecTask}
  /\ pc \in AwaitPcs
  /\ rpc = "idle"
  /\ ~cancelled
  /\ getCurrentTask(tasks, currentTaskId) = None

\* Two recorded actions that are the same navigation.
SameNavigation(a, b) ==
  a.function = Navigate /\ b.function = Navigate /\ a.arguments.url = b.arguments.url

\* C34: no two adjacent actions of the trace are navigations to the same URL.
C34_NoAdjacentSameNavigation ==
  \A i \in 1 .. Len(replayState.actions) - 1 :
    ~SameNavigation(replayState.actions[i], replayState.actions[i + 1])

\* Two navigate calls to the same URL, one after the other, both returned:
\* the list of pages holds the URL once, the list of actions holds the
\* navigation twice.
C34_NavigationRecordedTwice ==
  /\ replayState.pages = <<"u1">>
  /\ Len(replayState.actions) = 2
  /\ SameNavigation(replayState.actions[1], replayState.actions[2])
  /\ replayState.actions[1].arguments.url = "u1"
  /\ Len(issued) = 2

\* C35: once execute has minted its identity, the identity its McpClient holds
\* (and injects into the calls) and the identity of the trace are that one,
\* and a close-session call is sent for no other identity.
C35_HeldIsMinted ==
  minted # None =>
    /\ mcp["exec"].sessionId \in {minted, None}
    /\ replayState.sessionId \in {minted, None}
    /\ \A sid \in SessionIds \ {minted} : closeSent[sid] = 0

\* The oracle called the session-creation tool during the run: the client
\* took the identity of the response, the trace kept the one minted at the
\* start, and the close-session call of the finally block is out for the new
\* identity while none was sent for the minted one.
C35_OtherIdentityClosed ==
  /\ pc = "closeSession"
  /\ minted = FirstSession
  /\ replayState.sessionId = FirstSession
  /\ mcp["exec"].sessionId \in SessionIds \ {FirstSession}
  /\ closeSent[FirstSession] = 0
  /\ closeSent[mcp["exec"].sessionId] = 1


\* ----------------------------------------------------------- closed sessions
\* The identities the run's cleanup has closed: closeSession() forgets the
\* held identity only when its close-session call returned without error, and
\* here no close was ever sent for another identity than the minted one.
RunClosed ==
  IF /\ pc = "done"
     /\ minted # None
     /\ mcp["exec"].sessionId = None
     /\ \A sid \in SessionIds \ {minted} : closeSent[sid] = 0
  THEN {minted}
  ELSE {}

C37_ConnectedRunCloses ==
  [][(pc # "done" /\ pc' = "done" /\ mcp["exec"].client = "connected")
       => pc \in ClosePcs]_vars

\* The run connected, the session-creation response held no identity, and
\* execute returned with the transport still connected and no close sent.
C37_ReturnedStillConnected ==
  /\ pc = "done"
  /\ execResult = Failure(NoSessionIdError)
  /\ mcp["exec"].client = "connected"
  /\ mcp["exec"].sessionId = None
  /\ minted = None
  /\ \A sid \in SessionIds : closeSent[sid] = 0
  /\ tasks[ExecTask].status = "failed"
  /\ tasks[ExecTask].error = NoSessionIdError


\* ------------------------------------------------- the oracle's conversation
IsToolMessage(m) == m.role = "tool"

\* C38: every tool call of an assistant message gets exactly one tool-role
\* message with its id before the next oracle call, and a user-role snapshot
\* message is pushed only once no call of the turn is left without its result.
C38_ToolResultsBeforeSnapshot ==
  [][/\ (pending' = pending - 1)
          => SelectSeq(messages', IsToolMessage) \in {<<ToolMessage(callId', FALSE)>>,
                                                      <<ToolMessage(callId', TRUE)>>}
     /\ (messages' # messages /\ \E i \in 1 .. Len(messages') : messages'[i] = ImageMessage)
          => pending' = 0]_vars

\* The first of two calls of a turn has put its result and then the snapshot
\* in the conversation while the second call has no result yet.
C38_SnapshotBeforeSecondResult ==
  /\ pc = "turn"
  /\ pending = 1
  /\ callId = 1
  /\ lastOutcome = "ok"
  /\ messages = <<ToolMessage(1, FALSE), ImageMessage>>
  /\ ~cancelled

====
